---------------------------- MODULE Spec2Model ----------------------------
(***************************************************************************)
(* A model of PrintDown: the job queue and executor of printer_manager.py  *)
(* (PrinterManager), the IPP front-end of ipp_server.py                    *)
(* (SimpleIPPHandler), the markup compiler of markdown_parser.py          *)
(* (parse_markdown_formatting), the rendering of a text job on the device  *)
(* (_print_text_job, _print_markdown_formatted_data) and the raw TCP       *)
(* listeners of tcp_servers.py (start_server).  Byte strings are sequences *)
(* of numbers 0..255, texts are sequences of one-character strings, and    *)
(* positions are 0-based as in the Python source: element i of b is        *)
(* b[i+1].                                                                 *)
(***************************************************************************)
EXTENDS Integers, Sequences, FiniteSets, TLC

VARIABLES
    \* ---- PrinterManager (printer_manager.py) ----
    is_running,     \* self.is_running
    print_queue,    \* self.print_queue: FIFO of PrintJob records and the None sentinel
    printer_lock,   \* self.printer_lock: "free" or "worker"
    workerPc,       \* position of the _printer_worker thread
    cur,            \* the job the worker dequeued (local `job`)
    k,              \* driver calls made so far for cur, once the device is open
    fault,          \* a driver call of cur raised
    prodPc,         \* position of each producer thread inside add_print_job
    prodJob,        \* the PrintJob a producer constructed (local `job`)
    stopPc,         \* position of the thread calling stop()
    nextId,         \* number of PrintJob objects constructed so far, plus one
    \* ---- observation of the run (not program state) ----
    jobState,       \* per job: "none", "Queued", "Executing", "Completed", "Failed"
    device,         \* the driver calls made, in order, as runs: the id of the job of
                    \* each maximal run of consecutive calls made for one job
    retOrder,       \* ids of the jobs whose add_print_job call has returned, in order
    startedAfter,   \* per job: the jobs whose add_print_job had returned when its own began
    stopSeen,       \* the job that was Executing when stop() set the flag (0: none)
    further,        \* the jobs that began executing after stop() set the flag
    \* ---- SimpleIPPHandler (ipp_server.py) ----
    request,        \* the POST being answered: headers, body bytes and the environment's answers
    http,           \* the HTTP responses written for it, in order
    convIn,         \* the document bytes written to the temp file handed to the converter
    dispatched,     \* the handler do_POST dispatched to ("" when none)
    submitted,      \* the payloads it handed to add_print_job, in order
    posts,          \* number of POSTs handled
    wire,           \* what the handler did on the connection, in order: the
                    \* interim 100 written, the body read, a final response written
    \* ---- parse_markdown_formatting (markdown_parser.py) ----
    mdText,         \* text: the string being compiled
    mdPos,          \* i: the scan position
    mdResult,       \* result: the items appended so far
    mdLast,         \* the last iteration of the loop: its branch, the items it
                    \* appended, the position it started from and the one it left
    \* ---- _print_text_job (printer_manager.py) and the device ----
    clearsWeight,   \* whether the device's normal-text command switches bold and underline off
    style,          \* the style state the device holds
    styleBefore,    \* the style the device held when the last text job began
    printData,      \* data: the text of the last text job
    parsed_data,    \* the items compiled from it (none when it went to p.text whole)
    applied,        \* the device calls of the job that returned, in order, each with
                    \* the item it was made for and the style it left
    printFault,     \* whether the job ended in the except clause
    printed,        \* number of text jobs run
    \* ---- start_server (tcp_servers.py) ----
    tcpPc,          \* where the listener is: "accept" or "recv"
    listener,       \* the listener the connection came to: "text" or "image"
    pending,        \* the bytes the peer sends that have not been received yet
    received,       \* the bytes received on the connection
    chunks,         \* number of non-empty chunks recv has returned on it
    tcpJobs,        \* the payloads submitted for the connection, in order
    conns,          \* number of connections accepted
    timeouts,       \* number of idle timeouts on the connection
    backlog,        \* number of connections made that wait to be accepted
    peerOpen,       \* the peer of the accepted connection has not closed it
    \* ---- _parse_ipp_attributes (ipp_server.py) ----
    attrData,       \* request_data, the bytes being parsed
    attrBuilt,      \* what attrData was built from (not program state)
    attrPos,        \* pos
    attrAt,         \* pos at the start of the last iteration (not program state)
    requested_attrs,\* requested_attrs
    attrRead,       \* the end of the furthest index or slice asked for
    attrPc,         \* "idle", "loop" or "returned"
    attrStop        \* why the loop was left

workerVars == <<printer_lock, workerPc, cur, k, fault>>
prodVars == <<prodPc, prodJob, nextId>>
stopVars == <<is_running, stopPc>>
obsVars == <<jobState, device, retOrder, startedAfter, stopSeen, further>>
ippVars == <<request, http, convIn, dispatched, submitted, posts, wire>>
mdVars == <<mdText, mdPos, mdResult, mdLast>>
devVars == <<clearsWeight, style, styleBefore, printData, parsed_data, applied,
             printFault, printed>>
tcpVars == <<tcpPc, listener, pending, received, chunks, tcpJobs, conns, timeouts,
             backlog, peerOpen>>
attrVars == <<attrData, attrBuilt, attrPos, attrAt, requested_attrs, attrRead,
              attrPc, attrStop>>
vars == <<workerVars, prodVars, stopVars, print_queue, obsVars, ippVars, mdVars,
          devVars, tcpVars, attrVars>>

----------------------------------------------------------------------------
(* Bounds of the model *)

NumProducers == 2
MaxJobs == 2
MaxCalls == 1
MaxDoc == 1
MaxPosts == 1
MaxTokens == 3
MaxTextJobs == 1
MaxConns == 2
MaxStream == 2
MaxTimeouts == 1
MaxAttrs == 2

Producers == 1..NumProducers
JobIds == 1..MaxJobs

----------------------------------------------------------------------------
(* printer_manager.py *)

PrintJobType == {"text", "image"}

\* The None sentinel stop() puts on the queue.
NoneJob == [id |-> 0, job_type |-> "none", data |-> <<>>]

\* PrintJob(job_type, data, client_info): the id stands for the object's identity.
PrintJob(id, job_type, data) == [id |-> id, job_type |-> job_type, data |-> data]

\* The payloads a producer may hand in: a text payload is given as the
\* sequence of driver calls it renders to, an image payload renders in one.
Payloads(job_type) ==
    IF job_type = "image"
    THEN {<<"image">>}
    ELSE {[i \in 1..n |-> "text"] : n \in 1..MaxCalls}

\* Number of driver calls a job makes once the device is open.
DriverCalls(job) == Len(job.data)

\* PrinterManager.__init__
PMInit ==
    /\ is_running = TRUE
    /\ print_queue = <<>>
    /\ printer_lock = "free"
    /\ workerPc = "unstarted"
    /\ cur = NoneJob
    /\ k = 0
    /\ fault = FALSE
    /\ prodPc = [p \in Producers |-> "idle"]
    /\ prodJob = [p \in Producers |-> NoneJob]
    /\ stopPc = "idle"
    /\ nextId = 1
    /\ jobState = [j \in JobIds |-> "none"]
    /\ device = <<>>
    /\ retOrder = <<>>
    /\ startedAfter = [j \in JobIds |-> {}]
    /\ stopSeen = 0
    /\ further = {}

\* start(): the worker thread is created and begins _printer_worker.
\* main() calls it right after the constructor, before stop() can be.
start ==
    /\ workerPc = "unstarted"
    /\ stopPc = "idle"
    /\ workerPc' = "loop"
    /\ UNCHANGED <<printer_lock, cur, k, fault, prodVars, stopVars,
                   print_queue, obsVars, ippVars, mdVars, devVars, tcpVars, attrVars>>

\* add_print_job putting the job at the head of the queue.
add_print_job_put_front(p) ==
    /\ prodPc[p] = "idle"
    /\ nextId <= MaxJobs
    /\ \E t \in PrintJobType : \E d \in Payloads(t) :
          /\ prodJob' = [prodJob EXCEPT ![p] = PrintJob(nextId, t, d)]
          /\ print_queue' = <<PrintJob(nextId, t, d)>> \o print_queue
    /\ jobState' = [jobState EXCEPT ![nextId] = "Queued"]
    /\ startedAfter' = [startedAfter EXCEPT ![nextId] =
                           {retOrder[i] : i \in 1..Len(retOrder)}]
    /\ nextId' = nextId + 1
    /\ prodPc' = [prodPc EXCEPT ![p] = "return"]
    /\ UNCHANGED <<workerVars, stopVars, device, retOrder, stopSeen, further, ippVars, mdVars, devVars, tcpVars, attrVars>>

\* add_print_job, lines 59-60: job = PrintJob(job_type, data, client_info)
\* is local to the caller; self.print_queue.put(job) is the call's first
\* step on shared state.  is_running is not read.
add_print_job_put(p) ==
    /\ prodPc[p] = "idle"
    /\ nextId <= MaxJobs
    /\ \E t \in PrintJobType : \E d \in Payloads(t) :
          /\ prodJob' = [prodJob EXCEPT ![p] = PrintJob(nextId, t, d)]
          /\ print_queue' = Append(print_queue, PrintJob(nextId, t, d))
    /\ jobState' = [jobState EXCEPT ![nextId] = "Queued"]
    /\ startedAfter' = [startedAfter EXCEPT ![nextId] =
                           {retOrder[i] : i \in 1..Len(retOrder)}]
    /\ nextId' = nextId + 1
    /\ prodPc' = [prodPc EXCEPT ![p] = "return"]
    /\ UNCHANGED <<workerVars, stopVars, device, retOrder, stopSeen, further, ippVars, mdVars, devVars, tcpVars, attrVars>>

\* add_print_job, line 61: the print, and the return to the caller.
add_print_job_return(p) ==
    /\ prodPc[p] = "return"
    /\ retOrder' = Append(retOrder, prodJob[p].id)
    /\ prodPc' = [prodPc EXCEPT ![p] = "idle"]
    /\ prodJob' = [prodJob EXCEPT ![p] = NoneJob]
    /\ UNCHANGED <<workerVars, nextId, stopVars, print_queue, jobState,
                   device, startedAfter, stopSeen, further, ippVars, mdVars, devVars, tcpVars, attrVars>>

\* The worker is inside _process_print_job's `with self.printer_lock`.
Executing == workerPc \in {"open", "apply", "finally"}

\* stop(), line 51: self.is_running = False
stop_flag ==
    /\ stopPc = "idle"
    /\ is_running' = FALSE
    /\ stopPc' = "sentinel"
    /\ stopSeen' = IF Executing THEN cur.id ELSE 0
    /\ UNCHANGED <<workerVars, prodVars, print_queue, jobState, device, further,
                   retOrder, startedAfter, ippVars, mdVars, devVars, tcpVars, attrVars>>

\* stop(), line 52: self.print_queue.put(None)
stop_sentinel ==
    /\ stopPc = "sentinel"
    /\ print_queue' = Append(print_queue, NoneJob)
    /\ stopPc' = "join"
    /\ UNCHANGED <<workerVars, prodVars, is_running, obsVars, ippVars, mdVars, devVars, tcpVars, attrVars>>

\* stop() returning without joining the worker thread.
stop_without_join ==
    /\ stopPc = "join"
    /\ stopPc' = "returned"
    /\ UNCHANGED <<workerVars, prodVars, is_running, print_queue, obsVars,
                   ippVars, mdVars, devVars, tcpVars, attrVars>>

\* stop() waiting for the queue to be drained instead of for the worker
\* thread to end.
stop_join_queue ==
    /\ stopPc = "join"
    /\ print_queue = <<>>
    /\ ~Executing
    /\ stopPc' = "returned"
    /\ UNCHANGED <<workerVars, prodVars, is_running, print_queue, obsVars,
                   ippVars, mdVars, devVars, tcpVars, attrVars>>

\* stop(), lines 53-55: join the worker thread if there is one, then return.
stop_join ==
    /\ stopPc = "join"
    /\ workerPc \in {"unstarted", "exited"}
    /\ stopPc' = "returned"
    /\ UNCHANGED <<workerVars, prodVars, is_running, print_queue, obsVars,
                   ippVars, mdVars, devVars, tcpVars, attrVars>>

\* A worker that leaves its loop on the sentinel only: while True.
worker_loop_until_sentinel ==
    /\ workerPc = "loop"
    /\ workerPc' = "get"
    /\ UNCHANGED <<printer_lock, cur, k, fault, prodVars, stopVars,
                   print_queue, obsVars, ippVars, mdVars, devVars, tcpVars, attrVars>>

\* _printer_worker, line 65: while self.is_running
worker_loop ==
    /\ workerPc = "loop"
    /\ workerPc' = IF is_running THEN "get" ELSE "exited"
    /\ UNCHANGED <<printer_lock, cur, k, fault, prodVars, stopVars,
                   print_queue, obsVars, ippVars, mdVars, devVars, tcpVars, attrVars>>

\* _printer_worker, lines 67-70: get returns the head of the queue; the
\* sentinel breaks the loop, a job goes to _process_print_job.
worker_get ==
    /\ workerPc = "get"
    /\ print_queue # <<>>
    /\ print_queue' = Tail(print_queue)
    /\ IF Head(print_queue) = NoneJob
       THEN /\ workerPc' = "exited"
            /\ cur' = cur
       ELSE /\ workerPc' = "acquire"
            /\ cur' = Head(print_queue)
    /\ UNCHANGED <<printer_lock, k, fault, prodVars, stopVars, obsVars,
                   ippVars, mdVars, devVars, tcpVars, attrVars>>

\* The worker thread ending when its get times out on an empty queue.
worker_exits_on_timeout ==
    /\ workerPc = "get"
    /\ print_queue = <<>>
    /\ workerPc' = "exited"
    /\ UNCHANGED <<printer_lock, cur, k, fault, prodVars, stopVars,
                   print_queue, obsVars, ippVars, mdVars, devVars, tcpVars, attrVars>>

\* _printer_worker, lines 67 and 72-73: the get times out on an empty queue.
worker_timeout ==
    /\ workerPc = "get"
    /\ print_queue = <<>>
    /\ workerPc' = "loop"
    /\ UNCHANGED <<printer_lock, cur, k, fault, prodVars, stopVars,
                   print_queue, obsVars, ippVars, mdVars, devVars, tcpVars, attrVars>>

\* _process_print_job entered without taking the lock.
process_without_lock ==
    /\ workerPc = "acquire"
    /\ workerPc' = "open"
    /\ k' = 0
    /\ fault' = FALSE
    /\ jobState' = [jobState EXCEPT ![cur.id] = "Executing"]
    /\ further' = IF is_running THEN further ELSE further \cup {cur.id}
    /\ UNCHANGED <<printer_lock, cur, prodVars, stopVars, print_queue, device,
                   retOrder, startedAfter, stopSeen, ippVars, mdVars, devVars, tcpVars, attrVars>>

\* _process_print_job, line 79: with self.printer_lock
process_acquire ==
    /\ workerPc = "acquire"
    /\ printer_lock = "free"
    /\ printer_lock' = "worker"
    /\ workerPc' = "open"
    /\ k' = 0
    /\ fault' = FALSE
    /\ jobState' = [jobState EXCEPT ![cur.id] = "Executing"]
    /\ further' = IF is_running THEN further ELSE further \cup {cur.id}
    /\ UNCHANGED <<cur, prodVars, stopVars, print_queue, device, retOrder,
                   startedAfter, stopSeen, ippVars, mdVars, devVars, tcpVars, attrVars>>

\* The device log after one more driver call made for job id.
DeviceCall(log, id) ==
    IF log # <<>> /\ log[Len(log)] = id THEN log ELSE Append(log, id)

\* A driver error that no handler catches ends the worker thread.
DeviceErrorEscapes == "exited"

\* Where the worker goes when a driver call of the current job raises:
\* _print_text_job / _print_image_job catch it (lines 110, 126), so the
\* job ends and _process_print_job runs its finally clause.
AfterDeviceError == "finally"


\* _print_text_job line 97 / _print_image_job line 123: Usb(...) opens the
\* device; it returns or raises.
device_open ==
    /\ workerPc = "open"
    /\ device' = DeviceCall(device, cur.id)
    /\ \E ok \in BOOLEAN :
          IF ok THEN /\ workerPc' = "apply"
                     /\ fault' = fault
                ELSE /\ workerPc' = AfterDeviceError
                     /\ fault' = TRUE
    /\ UNCHANGED <<printer_lock, cur, k, prodVars, stopVars, print_queue,
                   jobState, retOrder, startedAfter, stopSeen, further,
                   ippVars, mdVars, devVars, tcpVars, attrVars>>

\* _print_text_job lines 103-109 (and _print_markdown_formatted_data) /
\* _print_image_job line 124: the next driver call of the job; it returns
\* or raises.
device_call ==
    /\ workerPc = "apply"
    /\ k < DriverCalls(cur)
    /\ device' = DeviceCall(device, cur.id)
    /\ \E ok \in BOOLEAN :
          IF ok THEN /\ k' = k + 1
                     /\ workerPc' = IF k + 1 = DriverCalls(cur)
                                    THEN "finally" ELSE "apply"
                     /\ fault' = fault
                ELSE /\ k' = k
                     /\ workerPc' = AfterDeviceError
                     /\ fault' = TRUE
    /\ UNCHANGED <<printer_lock, cur, prodVars, stopVars, print_queue,
                   jobState, retOrder, startedAfter, stopSeen, further,
                   ippVars, mdVars, devVars, tcpVars, attrVars>>

\* _process_print_job lines 88-92 and _printer_worker line 71: the finally
\* clause, the release of the lock on leaving `with`, and task_done().
process_done ==
    /\ workerPc = "finally"
    /\ printer_lock' = "free"
    /\ jobState' = [jobState EXCEPT ![cur.id] =
                       IF fault THEN "Failed" ELSE "Completed"]
    /\ workerPc' = "loop"
    /\ cur' = NoneJob
    /\ k' = 0
    /\ fault' = FALSE
    /\ UNCHANGED <<prodVars, stopVars, print_queue, device, retOrder,
                   startedAfter, stopSeen, further, ippVars, mdVars, devVars, tcpVars, attrVars>>

Producer == \E p \in Producers :
               \/ add_print_job_put(p)
               \/ add_print_job_return(p)

Stopper == stop_flag \/ stop_sentinel \/ stop_join

Worker == \/ worker_loop
          \/ worker_get
          \/ worker_timeout
          \/ process_acquire
          \/ device_open
          \/ device_call
          \/ process_done

----------------------------------------------------------------------------
(* ipp_server.py: byte strings *)

\* Python's b[i:j] for 0 <= i.
Slice(b, i, j) == SubSeq(b, i + 1, IF j < Len(b) THEN j ELSE Len(b))

\* struct.unpack('>H', b[pos:pos+2])[0]
U16(b, pos) == b[pos + 1] * 256 + b[pos + 2]

\* struct.unpack('>I', b[pos:pos+4])[0]
U32(b, pos) == ((b[pos + 1] * 256 + b[pos + 2]) * 256 + b[pos + 3]) * 256 + b[pos + 4]

\* bytes.find of a single byte: the first position holding it, or -1.
Find(b, byte) ==
    IF \E i \in 1..Len(b) : b[i] = byte
    THEN (CHOOSE i \in 1..Len(b) :
             /\ b[i] = byte
             /\ \A j \in 1..(i - 1) : b[j] # byte) - 1
    ELSE -1

\* The walk of _parse_ipp_attributes from position pos: the position of the
\* end-of-attributes tag (0x03 read where a tag is expected) that stops it,
\* or -1 when the buffer runs out first.
RECURSIVE ParseAttrsFrom(_, _)
ParseAttrsFrom(b, pos) ==
    IF pos >= Len(b) THEN -1
    ELSE LET tag == b[pos + 1]
             p1 == pos + 1
         IN  IF tag = 3 THEN pos
             ELSE IF tag \in {1, 2, 4, 5} THEN ParseAttrsFrom(b, p1)
             ELSE IF p1 + 2 > Len(b) THEN -1
             ELSE LET p2 == p1 + 2 + U16(b, p1)
                  IN  IF p2 > Len(b) \/ p2 + 2 > Len(b) THEN -1
                      ELSE LET p3 == p2 + 2 + U16(b, p2)
                           IN  IF p3 > Len(b) THEN -1
                               ELSE ParseAttrsFrom(b, p3)

\* pos = 8: skip version, operation-id, request-id.
EndOfAttrsPos(b) == ParseAttrsFrom(b, 8)

----------------------------------------------------------------------------
(* ipp_server.py: the response encoder, _send_ipp_response *)

\* struct.pack('>H', n) and struct.pack('>I', n)
PackH(n) == <<(n \div 256) % 256, n % 256>>
PackI(n) == <<(n \div 16777216) % 256, (n \div 65536) % 256, (n \div 256) % 256, n % 256>>

\* One attribute as the encoder writes it: the value tag, the name length
\* it states, the name bytes, the value length it states, the value bytes.
Attr(tag, name_length, name, value_length, value) ==
    <<tag>> \o PackH(name_length) \o name \o PackH(value_length) \o value

\* The concatenation of a sequence of byte strings.
RECURSIVE Concat(_)
Concat(ss) == IF ss = <<>> THEN <<>> ELSE Head(ss) \o Concat(Tail(ss))

\* f'ipp://{get_local_ip()}:{ipp_port}/ipp/print' with get_local_ip()'s
\* fallback 127.0.0.1 and the default port 6310
printer_uri == <<105, 112, 112, 58, 47, 47, 49, 50, 55, 46, 48, 46, 48, 46, 49, 58, 54, 51, 49, 48, 47, 105, 112, 112, 47, 112, 114, 105, 110, 116>>

\* f'ipp://{get_local_ip()}:{ipp_port}/ipp/print/1'
job_uri == printer_uri \o <<47, 49>>

\* lines 219-234: the operation attributes group
OperationAttributes ==
    Concat(<<
        <<1>>,
        \* attributes-charset = utf-8
        Attr(71, 18, <<97, 116, 116, 114, 105, 98, 117, 116, 101, 115, 45, 99, 104, 97, 114, 115, 101, 116>>,
            5, <<117, 116, 102, 45, 56>>),
        \* attributes-natural-language = en-us
        Attr(72, 27, <<97, 116, 116, 114, 105, 98, 117, 116, 101, 115, 45, 110, 97, 116, 117, 114, 97, 108, 45, 108, 97, 110, 103, 117, 97, 103, 101>>,
            5, <<101, 110, 45, 117, 115>>) >>)

\* lines 236-268: the job attributes group
JobAttributes ==
    Concat(<<
        <<2>>,
        \* job-uri
        Attr(69, 7, <<106, 111, 98, 45, 117, 114, 105>>, Len(job_uri), job_uri),
        \* job-id = 1
        Attr(33, 6, <<106, 111, 98, 45, 105, 100>>, 4, PackI(1)),
        \* job-state = 9 (completed)
        Attr(35, 9, <<106, 111, 98, 45, 115, 116, 97, 116, 101>>, 4, PackI(9)),
        \* job-state-reasons = job-completed-successfully
        Attr(68, 17, <<106, 111, 98, 45, 115, 116, 97, 116, 101, 45, 114, 101, 97, 115, 111, 110, 115>>,
            26, <<106, 111, 98, 45, 99, 111, 109, 112, 108, 101, 116, 101, 100, 45, 115, 117, 99, 99, 101, 115, 115, 102, 117, 108, 108, 121>>) >>)

\* lines 314-323: operations-supported, the name on the first value only
ops == <<2, 4, 5, 8, 9, 10, 11>>
\* The loop of lines 314-323 with the name written on every value.
OperationsSupportedAllNamed ==
    Concat([i \in 1..Len(ops) |->
        Attr(35, 20, <<111, 112, 101, 114, 97, 116, 105, 111, 110, 115, 45, 115, 117, 112, 112, 111, 114, 116, 101, 100>>,
            4, PackI(ops[i]))])

OperationsSupported ==
    Concat([i \in 1..Len(ops) |->
        IF i = 1
        THEN Attr(35, 20, <<111, 112, 101, 114, 97, 116, 105, 111, 110, 115, 45, 115, 117, 112, 112, 111, 114, 116, 101, 100>>,
                 4, PackI(ops[i]))
        ELSE Attr(35, 0, <<>>, 4, PackI(ops[i]))])

\* lines 326-336: document-format-supported: application/pdf,
\* application/postscript, text/plain, application/octet-stream
formats ==
    << <<97, 112, 112, 108, 105, 99, 97, 116, 105, 111, 110, 47, 112, 100, 102>>,
       <<97, 112, 112, 108, 105, 99, 97, 116, 105, 111, 110, 47, 112, 111, 115, 116, 115, 99, 114, 105, 112, 116>>,
       <<116, 101, 120, 116, 47, 112, 108, 97, 105, 110>>,
       <<97, 112, 112, 108, 105, 99, 97, 116, 105, 111, 110, 47, 111, 99, 116, 101, 116, 45, 115, 116, 114, 101, 97, 109>> >>
DocumentFormatSupported ==
    Concat([i \in 1..Len(formats) |->
        IF i = 1
        THEN Attr(73, 25, <<100, 111, 99, 117, 109, 101, 110, 116, 45, 102, 111, 114, 109, 97, 116, 45, 115, 117, 112, 112, 111, 114, 116, 101, 100>>,
                 Len(formats[i]), formats[i])
        ELSE Attr(73, 0, <<>>, Len(formats[i]), formats[i])])

\* lines 361-370: ipp-versions-supported: 1.1, 2.0; the name length
\* written is 23
versions == << <<49, 46, 49>>, <<50, 46, 48>> >>
IppVersionsSupported ==
    Concat([i \in 1..Len(versions) |->
        IF i = 1
        THEN Attr(68, 23, <<105, 112, 112, 45, 118, 101, 114, 115, 105, 111, 110, 115, 45, 115, 117, 112, 112, 111, 114, 116, 101, 100>>,
                 Len(versions[i]), versions[i])
        ELSE Attr(68, 0, <<>>, Len(versions[i]), versions[i])])

\* lines 270-370: the printer attributes group
PrinterAttributes ==
    Concat(<<
        <<4>>,
        \* printer-uri-supported
        Attr(69, 21, <<112, 114, 105, 110, 116, 101, 114, 45, 117, 114, 105, 45, 115, 117, 112, 112, 111, 114, 116, 101, 100>>,
            Len(printer_uri), printer_uri),
        \* printer-name = PrintDown
        Attr(66, 12, <<112, 114, 105, 110, 116, 101, 114, 45, 110, 97, 109, 101>>,
            9, <<80, 114, 105, 110, 116, 68, 111, 119, 110>>),
        \* printer-state = 3 (idle)
        Attr(35, 13, <<112, 114, 105, 110, 116, 101, 114, 45, 115, 116, 97, 116, 101>>, 4, PackI(3)),
        \* printer-state-reasons = none
        Attr(68, 21, <<112, 114, 105, 110, 116, 101, 114, 45, 115, 116, 97, 116, 101, 45, 114, 101, 97, 115, 111, 110, 115>>,
            4, <<110, 111, 110, 101>>),
        \* printer-is-accepting-jobs = true; the name length written is 26
        Attr(34, 26, <<112, 114, 105, 110, 116, 101, 114, 45, 105, 115, 45, 97, 99, 99, 101, 112, 116, 105, 110, 103, 45, 106, 111, 98, 115>>,
            1, <<1>>),
        OperationsSupported,
        DocumentFormatSupported,
        \* document-format-default = application/pdf
        Attr(73, 23, <<100, 111, 99, 117, 109, 101, 110, 116, 45, 102, 111, 114, 109, 97, 116, 45, 100, 101, 102, 97, 117, 108, 116>>,
            15, <<97, 112, 112, 108, 105, 99, 97, 116, 105, 111, 110, 47, 112, 100, 102>>),
        \* compression-supported = none
        Attr(68, 21, <<99, 111, 109, 112, 114, 101, 115, 115, 105, 111, 110, 45, 115, 117, 112, 112, 111, 114, 116, 101, 100>>,
            4, <<110, 111, 110, 101>>),
        \* charset-supported = utf-8
        Attr(71, 17, <<99, 104, 97, 114, 115, 101, 116, 45, 115, 117, 112, 112, 111, 114, 116, 101, 100>>,
            5, <<117, 116, 102, 45, 56>>),
        IppVersionsSupported >>)

\* lines 214-373: the response bytes for a status code and request id, with
\* the job or the printer attributes group when asked for
EncodeResponse(status_code, request_id, group) ==
    <<2, 0>> \o PackH(status_code) \o PackI(request_id)
    \o OperationAttributes
    \o (IF group = "job" THEN JobAttributes ELSE <<>>)
    \o (IF group = "printer" THEN PrinterAttributes ELSE <<>>)
    \o <<3>>

\* _debug_response, lines 401-427: the walk over the response from
\* position pos; TRUE when a struct.unpack is handed fewer than 2 bytes and
\* raises, FALSE when the walk ends.
RECURSIVE DebugWalkRaises(_, _)
DebugWalkRaises(response, pos) ==
    IF ~(pos < Len(response) /\ response[pos + 1] # 3) THEN FALSE
    ELSE LET tag == response[pos + 1]
             p1 == pos + 1
         IN  IF tag \in {1, 2, 4, 5} THEN DebugWalkRaises(response, p1)
             ELSE IF Len(Slice(response, p1, p1 + 2)) < 2 THEN TRUE
             ELSE LET p2 == p1 + 2 + U16(response, p1)
                  IN  IF p2 > Len(response) \/ Len(Slice(response, p2, p2 + 2)) < 2
                      THEN TRUE
                      ELSE DebugWalkRaises(response, p2 + 2 + U16(response, p2))

\* _send_ipp_response, line 377: whether _debug_response raises on the
\* response of each kind, before anything is written to the client.  The
\* walk starts after the version, status and request id.
DebugRaises ==
    [g \in {"none", "job", "printer"} |->
        DebugWalkRaises(EncodeResponse(0, 1, g), 8)]

----------------------------------------------------------------------------
(* ipp_server.py: _parse_ipp_attributes, one iteration of its loop a step *)

\* value.decode('utf-8', errors='ignore') of bytes that are ASCII or 0xFF:
\* an ASCII byte is its character, 0xFF is never part of a valid sequence
\* and is dropped.
Utf8Ignore(bytes) == SelectSeq(bytes, LAMBDA c : c < 128)

\* 'requested-attributes'
requested_attributes == <<114, 101, 113, 117, 101, 115, 116, 101, 100, 45, 97, 116, 116, 114, 105, 98, 117, 116, 101, 115>>

\* version 2.0, operation Get-Printer-Attributes, request id 1
AttrHeader == <<2, 0, 0, 11, 0, 0, 0, 1>>

\* What a request body is built from, with the text a complete
\* requested-attributes field carries: a delimiter tag, the
\* end-of-attributes tag, requested-attributes fields whose values are
\* "a", the byte 0x03 and "a" followed by 0xFF, a field with an empty name
\* (an additional value) and a field of another name.
AttrToken(kind, bytes, text) == [kind |-> kind, bytes |-> bytes, text |-> text]
AttrTokens ==
    {AttrToken("delimiter", <<1>>, <<>>),
     AttrToken("end", <<3>>, <<>>),
     AttrToken("requested", Attr(68, 20, requested_attributes, 1, <<97>>), <<97>>),
     AttrToken("requested", Attr(68, 20, requested_attributes, 1, <<3>>), <<3>>),
     AttrToken("requested", Attr(68, 20, requested_attributes, 2, <<97, 255>>), <<97>>),
     AttrToken("other", Attr(68, 0, <<>>, 1, <<98>>), <<>>),
     AttrToken("other", Attr(68, 1, <<65>>, 1, <<118>>), <<>>)}

\* The bytes of a sequence of tokens after the header.
AttrBytes(tokens) == AttrHeader \o Concat([n \in 1..Len(tokens) |-> tokens[n].bytes])

\* An iteration's outcome: the position it leaves, why it stops the loop
\* ("" when it does not), the end of the furthest index or slice it asked
\* for, and what it appends to requested_attrs.
AttrOutcome(next, stop, read, found) ==
    [next |-> next, stop |-> stop, read |-> read, found |-> found]

\* A test the code does not make.
HoldsAnything(b, p, n) == TRUE

\* lines 140, 146, 153, 159: `if pos + n > len(request_data): break` does
\* not break
Holds(b, p, n) == p + n <= Len(b)

\* lines 127-165: the body of the loop at position p < len(request_data)
AttrIteration(b, p) ==
    LET tag == b[p + 1]
        p1 == p + 1
    IN  IF tag = 3 THEN AttrOutcome(p1, "end_tag", p1, <<>>)
        ELSE IF tag \in {1, 2, 4, 5} THEN AttrOutcome(p1, "", p1, <<>>)
        ELSE IF ~Holds(b, p1, 2) THEN AttrOutcome(p1, "short", p1, <<>>)
        ELSE IF Len(Slice(b, p1, p1 + 2)) < 2 THEN AttrOutcome(p1, "raised", p1 + 2, <<>>)
        ELSE
        LET name_len == U16(b, p1)
            p2 == p1 + 2
        IN  IF ~Holds(b, p2, name_len) THEN AttrOutcome(p2, "short", p2, <<>>)
            ELSE
            LET name == Utf8Ignore(Slice(b, p2, p2 + name_len))
                p3 == p2 + name_len
            IN  IF ~Holds(b, p3, 2) THEN AttrOutcome(p3, "short", p3, <<>>)
                ELSE IF Len(Slice(b, p3, p3 + 2)) < 2
                     THEN AttrOutcome(p3, "raised", p3 + 2, <<>>)
                ELSE
                LET value_len == U16(b, p3)
                    p4 == p3 + 2
                IN  IF ~Holds(b, p4, value_len) THEN AttrOutcome(p4, "short", p4, <<>>)
                    ELSE
                    LET value == Slice(b, p4, p4 + value_len)
                    IN  AttrOutcome(p4 + value_len, "", p4 + value_len,
                                    IF name = requested_attributes
                                    THEN <<Utf8Ignore(value)>>
                                    ELSE <<>>)

\* _parse_ipp_attributes has not been called.
AttrIdle ==
    /\ attrData = <<>>
    /\ attrBuilt = <<>>
    /\ attrPos = 0
    /\ attrAt = 0
    /\ requested_attrs = <<>>
    /\ attrRead = 0
    /\ attrPc = "idle"
    /\ attrStop = ""

\* lines 119-120: _parse_ipp_attributes is called with a body of at least
\* 8 bytes: the header and the first bytes of up to MaxAttrs tokens.
AttrCalled ==
    /\ \E n \in 0..MaxAttrs : \E tokens \in [1..n -> AttrTokens] :
          \E cut \in 8..Len(AttrBytes(tokens)) :
             /\ attrBuilt = tokens
             /\ attrData = Slice(AttrBytes(tokens), 0, cut)
    /\ attrPos = 8
    /\ attrAt = 8
    /\ requested_attrs = <<>>
    /\ attrRead = 0
    /\ attrPc = "loop"
    /\ attrStop = ""

\* lines 123-171: the loop test and one iteration, or the return
parse_ipp_attributes ==
    /\ attrPc = "loop"
    /\ IF attrPos >= Len(attrData)
       THEN /\ attrPc' = "returned"
            /\ attrStop' = "exhausted"
            /\ attrAt' = attrPos
            /\ UNCHANGED <<attrPos, requested_attrs, attrRead>>
       ELSE \E o \in {AttrIteration(attrData, attrPos)} :
               /\ attrAt' = attrPos
               /\ attrPos' = o.next
               /\ requested_attrs' = requested_attrs \o o.found
               /\ attrRead' = IF o.read > attrRead THEN o.read ELSE attrRead
               /\ attrStop' = o.stop
               /\ attrPc' = IF o.stop = "" THEN "loop" ELSE "returned"
    /\ UNCHANGED <<attrData, attrBuilt, workerVars, prodVars, stopVars, print_queue,
                   obsVars, ippVars, mdVars, devVars, tcpVars>>

----------------------------------------------------------------------------
(* ipp_server.py: the requests the model sends *)

\* version-major, version-minor
Versions == {<<2, 0>>, <<1, 1>>}

\* operation ids, as their two bytes: the eight dispatched ones, and
\* Print-URI (0x0003) and 0x4002, which are not.
OperationBytes ==
    {<<0, 2>>, <<0, 4>>, <<0, 5>>, <<0, 6>>, <<0, 8>>, <<0, 9>>, <<0, 10>>,
     <<0, 11>>, <<0, 3>>, <<64, 2>>}

\* request ids, as their four bytes: 1 and 3
RequestIdBytes == {<<0, 0, 0, 1>>, <<0, 0, 0, 3>>}

\* attribute sections: an operation group with nothing in it, and one with
\* an attribute (tag 0x44) named "A" whose one-byte value is 0x03
AttrSections == {<<1>>, <<1, 68, 0, 1, 65, 0, 1, 3>>}

DocBytes == {3, 65}

\* document data of at most MaxDoc bytes
Documents == UNION {[1..n -> DocBytes] : n \in 0..MaxDoc}

\* what follows the attribute section: nothing (no end-of-attributes tag),
\* or the tag and a document
Tails == {<<>>} \cup {<<3>> \o d : d \in Documents}

Bodies ==
    {v \o o \o r \o a \o t :
        v \in Versions, o \in OperationBytes, r \in RequestIdBytes,
        a \in AttrSections, t \in Tails}

\* The Content-Length header: absent, not a number, or a number.
NoHeader == -1
NotANumber == -2

\* What the environment answers while a document is converted: all goes
\* well; the temp file cannot be written; the converter raises; or
\* os.remove of the temp file raises.
Envs == {"ok", "tempfile_fails", "convert_fails", "remove_fails"}

\* result.text_content of the converter
ConverterOutputs == {<<"#", "a">>, <<"b">>}

\* The operation id a body of at least 4 bytes carries.
OpOf(body) == U16(body, 2)

\* The Expect header: absent (the handler reads it as ''), asking for the
\* interim response in two spellings, or asking for something else.
ExpectValues == {"", "100-continue", "100-Continue", "200-ok"}

\* The requests: every body sent whole with its length announced, the
\* environment's answers varying where a document may be converted; the
\* bodies of one version, request id and attribute section sent with no
\* Content-Length, one that is not a number, or one that announces 0 or 7
\* bytes (only the bytes announced are read); and, for every operation, a
\* body with an Expect header, its length announced right, not as a number,
\* or as 7.
Requests ==
    {[content_length |-> Len(b), sent |-> b, env |-> e, text |-> t,
      expect |-> ""] :
        b \in {x \in Bodies : OpOf(x) \in {2, 6}}, e \in Envs,
        t \in ConverterOutputs}
    \cup
    {[content_length |-> Len(b), sent |-> b, env |-> "ok", text |-> <<"b">>,
      expect |-> ""] :
        b \in {x \in Bodies : OpOf(x) \notin {2, 6}}}
    \cup
    {[content_length |-> c, sent |-> <<2, 0>> \o o \o <<0, 0, 0, 1, 1>> \o t,
      env |-> "ok", text |-> <<"b">>, expect |-> ""] :
        c \in {NoHeader, NotANumber, 0, 7}, o \in OperationBytes, t \in Tails}
    \cup
    {[content_length |-> c, sent |-> <<2, 0>> \o o \o <<0, 0, 0, 1, 1, 3, 65>>,
      env |-> "ok", text |-> <<"b">>, expect |-> x] :
        c \in {11, NotANumber, 7}, o \in OperationBytes,
        x \in ExpectValues \ {""}}

-----
(* ipp_server.py: SimpleIPPHandler *)

BadRequest == 400
InternalError == 500
HttpOk == 200
SuccessfulOk == 0
ServerErrorInternal == 1280
OperationNotSupported == 1281

\* send_error(code, ...): an HTTP error response with no IPP message
HttpError(code) ==
    [code |-> code, status |-> -1, request_id |-> -1, group |-> "none"]

\* _send_ipp_response: HTTP 200 carrying an IPP message with this status
\* code and request id, and the job or printer attribute group if asked for
IppResponse(status_code, request_id, group) ==
    [code |-> HttpOk, status |-> status_code, request_id |-> request_id,
     group |-> group]

\* What a handler leaves behind.
Outcome(h, c, d, s) == [http |-> h, convIn |-> c, dispatched |-> d, submitted |-> s]

\* _handle_print_job, line 83: where the handler takes the attributes to end
end_of_attrs_pos(request_data) == Find(request_data, 3)

\* _send_ipp_response called without its request_id argument: the default
\* of line 211 is sent.
send_ipp_response_default_id(status_code, request_id, group) ==
    IF DebugRaises[group] THEN <<>>
    ELSE <<IppResponse(status_code, 1, group)>>

\* _send_ipp_response, lines 211-382: what is written to the client: the
\* response, or nothing when _debug_response raises first.
send_ipp_response(status_code, request_id, group) ==
    IF DebugRaises[group] THEN <<>>
    ELSE <<IppResponse(status_code, request_id, group)>>

\* do_POST without its except clause: what was written is all there is.
NotAnswered(written) == written

\* do_POST, lines 74-78: an exception that reaches do_POST is answered
\* with send_error(500).
Answered(written) ==
    IF written = <<>> THEN <<HttpError(InternalError)>> ELSE written

\* _handle_print_job, lines 80-115
handle_print_job(request_data, request_id, env, text) ==
    LET pos == end_of_attrs_pos(request_data)
        document_data == Slice(request_data, pos + 1, Len(request_data))
        \* line 115, in the except clause
        failed == Answered(send_ipp_response(ServerErrorInternal, request_id, "none"))
        \* lines 106 and 109; if it raises, the except clause runs
        done == LET w == send_ipp_response(SuccessfulOk, request_id, "none")
                IN  IF w = <<>> THEN failed ELSE w
    IN  IF pos = -1
        THEN Outcome(<<HttpError(BadRequest)>>, <<>>, "print_job", <<>>)
        ELSE IF Len(document_data) > 0
        THEN CASE env = "tempfile_fails" ->
                    Outcome(failed, <<>>, "print_job", <<>>)
               [] env = "convert_fails" ->
                    Outcome(failed, document_data, "print_job", <<>>)
               [] env = "remove_fails" ->
                    Outcome(failed, document_data, "print_job", <<text>>)
               [] OTHER ->
                    Outcome(done, document_data, "print_job", <<text>>)
        ELSE Outcome(done, <<>>, "print_job", <<>>)

\* The length test of line 42 with 7 in place of 8.
TooShortBySeven(request_data) == Len(request_data) < 7

\* do_POST, line 42: the body cannot hold version, operation id and request id
TooShort(request_data) == Len(request_data) < 8

\* A dispatch that sends every operation it does not know to Print-Job.
DispatchAllToPrint(operation_id) ==
    CASE operation_id = 11 -> "get_printer_attributes"
      [] operation_id = 4 -> "validate_job"
      [] operation_id = 5 -> "create_job"
      [] operation_id = 6 -> "send_document"
      [] operation_id = 9 -> "get_job_attributes"
      [] operation_id = 10 -> "get_jobs"
      [] operation_id = 8 -> "cancel_job"
      [] OTHER -> "print_job"

\* A dispatch that does not know Send-Document.
DispatchWithoutSendDocument(operation_id) ==
    CASE operation_id = 2 -> "print_job"
      [] operation_id = 11 -> "get_printer_attributes"
      [] operation_id = 4 -> "validate_job"
      [] operation_id = 5 -> "create_job"
      [] operation_id = 9 -> "get_job_attributes"
      [] operation_id = 10 -> "get_jobs"
      [] operation_id = 8 -> "cancel_job"
      [] OTHER -> "unsupported"

\* do_POST, lines 53-72: the handler an operation id goes to
Dispatch(operation_id) ==
    CASE operation_id = 2 -> "print_job"
      [] operation_id = 11 -> "get_printer_attributes"
      [] operation_id = 4 -> "validate_job"
      [] operation_id = 5 -> "create_job"
      [] operation_id = 6 -> "send_document"
      [] operation_id = 9 -> "get_job_attributes"
      [] operation_id = 10 -> "get_jobs"
      [] operation_id = 8 -> "cancel_job"
      [] OTHER -> "unsupported"

\* do_POST, lines 39-40: request_data, the bytes read for a Content-Length
\* that is absent (0 is assumed) or a number.
ReadBody(req) ==
    IF req.content_length = NoHeader THEN <<>>
    ELSE Slice(req.sent, 0, req.content_length)

\* do_POST, lines 38-78: the handler for one request from its try statement on
HandlePost(req) ==
    IF req.content_length = NotANumber
    THEN \* int() raises ValueError: the except clause of line 74
         Outcome(<<HttpError(InternalError)>>, <<>>, "", <<>>)
    ELSE
    LET request_data == ReadBody(req)
    IN  IF TooShort(request_data)
        THEN Outcome(<<HttpError(BadRequest)>>, <<>>, "", <<>>)
        ELSE IF Len(request_data) < 8
        THEN \* struct.unpack of a short slice raises struct.error (line 74)
             Outcome(<<HttpError(InternalError)>>, <<>>, "", <<>>)
        ELSE
        LET operation_id == U16(request_data, 2)
            request_id == U32(request_data, 4)
            h == Dispatch(operation_id)
            ok(group) ==
                Outcome(Answered(send_ipp_response(SuccessfulOk, request_id, group)),
                        <<>>, h, <<>>)
        IN  CASE h \in {"print_job", "send_document"} ->
                   [handle_print_job(request_data, request_id, req.env, req.text)
                       EXCEPT !.dispatched = h]
              [] h = "get_printer_attributes" -> ok("printer")
              [] h = "get_job_attributes" -> ok("job")
              [] h \in {"validate_job", "create_job", "get_jobs", "cancel_job"} ->
                   ok("none")
              [] OTHER ->
                   Outcome(Answered(send_ipp_response(OperationNotSupported,
                                                      request_id, "none")),
                           <<>>, h, <<>>)

\* str.lower() of an Expect header value
Lower(value) ==
    CASE value = "100-Continue" -> "100-continue"
      [] OTHER -> value

\* do_POST, lines 34-36: send_response_only(100) and end_headers() when the
\* Expect header, in lower case, is 100-continue
Interim(req) ==
    IF Lower(req.expect) = "100-continue" THEN <<"100">> ELSE <<>>

\* do_POST, line 40: rfile.read, reached unless int() of line 39 raised
BodyRead(req) ==
    IF req.content_length = NotANumber THEN <<>> ELSE <<"read">>

\* The handler reading the body before it looks at the Expect header.
WireReadFirst(req, responses) ==
    BodyRead(req) \o Interim(req) \o [n \in 1..Len(responses) |-> "response"]

\* do_POST, lines 33-78, as the connection sees it: the interim response if
\* asked for, then the read of the body, then the responses the handler
\* writes.
Wire(req, responses) ==
    Interim(req) \o BodyRead(req) \o [n \in 1..Len(responses) |-> "response"]

\* No POST has been handled yet (posts = 0).
NoRequest ==
    [content_length |-> NoHeader, sent |-> <<>>, env |-> "ok", text |-> <<>>,
     expect |-> ""]

IPPIdle ==
    /\ request = NoRequest
    /\ http = <<>>
    /\ convIn = <<>>
    /\ dispatched = ""
    /\ submitted = <<>>
    /\ posts = 0
    /\ wire = <<>>

----------------------------------------------------------------------------
(* markdown_parser.py: parse_markdown_formatting *)

\* A string is a sequence of one-character strings; positions are 0-based
\* as in the source: character p of s is s[p + 1].

\* text[p:p + len(pat)] == pat
IsAt(s, p, pat) == Slice(s, p, p + Len(pat)) = pat

\* text.rfind(pat, begin): the last position from begin on where pat
\* occurs, or -1.
FindLast(s, pat, begin) ==
    LET hits == {p \in begin..(Len(s) - Len(pat)) : Slice(s, p, p + Len(pat)) = pat}
    IN  IF hits = {} THEN -1
        ELSE CHOOSE p \in hits : \A q \in hits : p >= q

\* text.find(pat, begin): the first position from begin on where pat
\* occurs, or -1.
FindFrom(s, pat, begin) ==
    LET hits == {p \in begin..(Len(s) - Len(pat)) : IsAt(s, p, pat)}
    IN  IF hits = {} THEN -1
        ELSE CHOOSE p \in hits : \A q \in hits : p <= q

\* The position after the maximal run of the character c that starts at
\* p: the loops of lines 16-18 and 63-65.
RunEnd(s, p, c) ==
    CHOOSE j \in p..Len(s) :
        /\ \A q \in p..(j - 1) : s[q + 1] = c
        /\ j = Len(s) \/ s[j + 1] # c

\* s.strip(chars): s without its leading and trailing characters in chars
StripChars(s, chars) ==
    LET keep == {p \in 1..Len(s) : s[p] \notin chars}
    IN  IF keep = {} THEN <<>>
        ELSE SubSeq(s, CHOOSE p \in keep : \A q \in keep : p <= q,
                       CHOOSE p \in keep : \A q \in keep : p >= q)

\* the characters str.strip() removes, among those of the model's texts
Whitespace == {" ", "\n", "\t", "\r"}

\* text[p:].split('\n')[0]: the rest of the line from position p
RestOfLine(s, p) ==
    LET nl == FindFrom(s, <<"\n">>, p)
    IN  Slice(s, p, IF nl = -1 THEN Len(s) ELSE nl)

\* \d of the pattern of line 114 and int() of the digit it matched
DigitChars == <<"0", "1", "2", "3", "4", "5", "6", "7", "8", "9">>
IsDigit(c) == \E d \in 1..10 : DigitChars[d] = c
IntOf(c) == (CHOOSE d \in 1..10 : DigitChars[d] = c) - 1

\* The items of the result list: the tuples ('text', t), ('paper_cut',),
\* ('format', kind, t), ('header', level, t), ('align', dir, t) and
\* ('custom_size', width, height, t), as records of one shape.
Item(type, kind, n, m, t) ==
    [type |-> type, kind |-> kind, n |-> n, m |-> m, text |-> t]
TextItem(t) == Item("text", "", 0, 0, t)
PaperCutItem == Item("paper_cut", "", 0, 0, <<>>)
FormatItem(kind, t) == Item("format", kind, 0, 0, t)
HeaderItem(level, t) == Item("header", "", level, 0, t)
AlignItem(dir, t) == Item("align", dir, 0, 0, t)
CustomSizeItem(width, height, t) == Item("custom_size", "", width, height, t)

\* What one iteration of the loop does: the branch it takes, the items it
\* appends to result and the value it leaves in i.
Iteration(branch, items, next) == [branch |-> branch, items |-> items, next |-> next]

\* An iteration that skips the character at i and appends nothing.
LiteralLost(s, p, branch) == Iteration(branch, <<>>, p + 1)

\* An iteration that appends the character at i and leaves i where it is.
LiteralStuck(s, p, branch) == Iteration(branch, <<TextItem(<<s[p + 1]>>)>>, p)

\* lines 132-133 (and 37-38, 47-48, 57-58, 90-91, 100-101, 110-111,
\* 126-127, 129-130): the character at i as literal text
Literal(s, p, branch) == Iteration(branch, <<TextItem(<<s[p + 1]>>)>>, p + 1)

\* The paper cut test of line 13 without the line-start test of line 12.
PaperCutAnywhere(s, p) ==
    /\ IsAt(s, p, <<">", ">", ">">>)
    /\ Len(StripChars(RestOfLine(s, p), {">"})) = 0

\* lines 12-13: the paper cut test at the start of a line
PaperCutLine(s, p) ==
    /\ p = 0 \/ (p > 0 /\ s[p] = "\n")
    /\ IsAt(s, p, <<">", ">", ">">>)
    /\ Len(StripChars(RestOfLine(s, p), {">"})) = 0

\* lines 14-27
paper_cut(s, p) ==
    LET j == RunEnd(s, p, ">")
        equals_count == j - p
        line_end == FindFrom(s, <<"\n">>, j)
    IN  IF equals_count >= 3
        THEN Iteration("paper_cut", <<PaperCutItem>>,
                       IF line_end = -1 THEN Len(s) ELSE line_end + 1)
        ELSE Iteration("none", <<>>, p)

\* A span after which the scan goes on inside it, behind the opening
\* marker.
SpanRescanned(s, p, open, close, branch, item) ==
    LET end_pos == FindFrom(s, close, p + Len(open))
    IN  IF end_pos # -1
        THEN Iteration(branch,
                       <<[item EXCEPT !.text = Slice(s, p + Len(open), end_pos)]>>,
                       p + Len(open))
        ELSE Literal(s, p, "unmatched")

\* lines 30-58, 81-91 and 93-111: a span opened by the marker open at p
\* and closed by the first close after it, appended as the given item with
\* the enclosed text; the opening character alone when there is no close.
Span(s, p, open, close, branch, item) ==
    LET end_pos == FindFrom(s, close, p + Len(open))
    IN  IF end_pos # -1
        THEN Iteration(branch,
                       <<[item EXCEPT !.text = Slice(s, p + Len(open), end_pos)]>>,
                       end_pos + Len(close))
        ELSE Literal(s, p, "unmatched")

\* The header branch without the newline of lines 77-78.
header_without_newline(s, p) ==
    LET j0 == RunEnd(s, p, "#")
        nl == FindFrom(s, <<"\n">>, j0)
        line_end == IF nl = -1 THEN Len(s) ELSE nl
        j == IF j0 < Len(s) /\ s[j0 + 1] = " " THEN j0 + 1 ELSE j0
        stripped == StripChars(Slice(s, j, line_end), Whitespace)
    IN  Iteration("header",
            IF stripped # <<>> THEN <<HeaderItem(j0 - p, stripped)>> ELSE <<>>,
            IF line_end < Len(s) THEN line_end + 1 ELSE Len(s))

\* lines 60-79
header(s, p) ==
    LET j0 == RunEnd(s, p, "#")
        hash_count == j0 - p
        nl == FindFrom(s, <<"\n">>, j0)
        line_end == IF nl = -1 THEN Len(s) ELSE nl
        j == IF j0 < Len(s) /\ s[j0 + 1] = " " THEN j0 + 1 ELSE j0
        header_text == Slice(s, j, line_end)
        stripped == StripChars(header_text, Whitespace)
    IN  Iteration("header",
            IF stripped # <<>>
            THEN <<HeaderItem(hash_count, stripped)>>
                 \o (IF line_end < Len(s) THEN <<TextItem(<<"\n">>)>> ELSE <<>>)
            ELSE <<>>,
            IF line_end < Len(s) THEN line_end + 1 ELSE Len(s))

\* lines 81-91
align(s, p) ==
    LET align_type == s[p + 2]
        lower == CASE align_type = "L" -> "l" [] align_type = "C" -> "c"
                   [] OTHER -> "r"
    IN  Span(s, p, <<"<", align_type, ">">>, <<"<", "/", align_type, ">">>,
             "align", AlignItem(lower, <<>>))

\* lines 113-130
custom_size(s, p) ==
    LET window == Slice(s, p, p + 10)
        match == /\ Len(window) >= 5
                 /\ IsDigit(window[2]) /\ window[3] = "x"
                 /\ IsDigit(window[4]) /\ window[5] = ">"
    IN  IF match
        THEN LET width == IntOf(window[2])
                 height == IntOf(window[4])
                 end_tag == <<"<", "/", DigitChars[width + 1], "x",
                              DigitChars[height + 1], ">">>
             IN  Span(s, p, SubSeq(window, 1, 5), end_tag, "custom_size",
                      CustomSizeItem(width, height, <<>>))
        ELSE Literal(s, p, "custom_size_malformed")

\* lines 11-133: the iteration of the while loop at position p < len(text)
LoopBody(s, p) ==
    LET bold == FormatItem("bold", <<>>)
        underline == FormatItem("underline", <<>>)
        invert == FormatItem("invert", <<>>)
        double_height == FormatItem("double_height", <<>>)
        double_width == FormatItem("double_width", <<>>)
        cut == IF PaperCutLine(s, p) THEN paper_cut(s, p)
               ELSE Iteration("none", <<>>, p)
    IN  IF cut.branch = "paper_cut" THEN cut
        ELSE IF Slice(s, p, p + 2) = <<"*", "*">>
        THEN Span(s, p, <<"*", "*">>, <<"*", "*">>, "bold", bold)
        ELSE IF Slice(s, p, p + 2) = <<"_", "_">>
        THEN Span(s, p, <<"_", "_">>, <<"_", "_">>, "underline", underline)
        ELSE IF Slice(s, p, p + 2) = <<"~", "~">>
        THEN Span(s, p, <<"~", "~">>, <<"~", "~">>, "invert", invert)
        ELSE IF s[p + 1] = "#"
        THEN header(s, p)
        ELSE IF Slice(s, p, p + 3) \in {<<"<", "L", ">">>, <<"<", "C", ">">>, <<"<", "R", ">">>}
        THEN align(s, p)
        \* lines 93 and 103 compare three characters with a tag of four
        ELSE IF Slice(s, p, p + 3) = <<"<", "2", "H", ">">>
        THEN Span(s, p, <<"<", "2", "H", ">">>, <<"<", "/", "2", "H", ">">>,
                  "double_height", double_height)
        ELSE IF Slice(s, p, p + 3) = <<"<", "2", "W", ">">>
        THEN Span(s, p, <<"<", "2", "W", ">">>, <<"<", "/", "2", "W", ">">>,
                  "double_width", double_width)
        ELSE IF s[p + 1] = "<" /\ \E q \in 1..Len(Slice(s, p, p + 10)) :
                                     Slice(s, p, p + 10)[q] = "x"
        THEN custom_size(s, p)
        ELSE Literal(s, p, "literal")

\* The texts compiled: the concatenations of at most MaxTokens tokens, and
\* some longer examples.
Tokens ==
    {<<"a">>,
     <<" ">>,
     <<"\n">>,
     <<"*">>,
     <<"*", "*">>,
     <<"_", "_">>,
     <<"~", "~">>,
     <<"#">>,
     <<">">>,
     <<">", ">", ">">>,
     <<"x">>,
     <<"<">>,
     <<"<", "C", ">">>,
     <<"<", "/", "C", ">">>,
     <<"<", "2", "H", ">">>,
     <<"<", "/", "2", "H", ">">>,
     <<"<", "3", "x", "2", ">">>,
     <<"<", "/", "3", "x", "2", ">">>}

Examples ==
    {<<"p", "l", "a", "i", "n">>,
     <<"*", "*", "h", "i", "*", "*">>,
     <<"#", " ", "T", "i", "t", "l", "e", "\n">>,
     <<"*", "*", "u", "n", "t", "e", "r", "m", "i", "n", "a", "t", "e", "d">>,
     <<"<", "2", "H", ">", "t", "<", "/", "2", "H", ">">>,
     <<"<", "2", "W", ">", "t", "<", "/", "2", "W", ">">>,
     <<"<", "0", "x", "2", ">", "a", "<", "/", "0", "x", "2", ">">>,
     <<"<", "3", "x", "2", ">", "a", "<", "/", "2", "x", "3", ">">>,
     <<"<", "C", ">", "~", "~", "x", "~", "~", "<", "/", "C", ">">>,
     <<"#", "#", " ", "a", " ", "b", " ", "\n", ">", ">", ">", "\n">>,
     <<"*", "*", "a", "\n", ">", ">", ">", "\n", "#", "b", "*", "*">>,
     <<"#", " ", " ", "T", " ", " ", "\n", "b">>,
     <<"_", "_", "u", "_", "_", "~", "~", "i", "~", "~">>}

Texts ==
    {Concat(ts) : ts \in UNION {[1..n -> Tokens] : n \in 0..MaxTokens}}
    \cup Examples

\* No text is being compiled.
NoIteration == [branch |-> "", items |-> <<>>, next |-> 0, from |-> 0]

MDIdle ==
    /\ mdText = <<>>
    /\ mdPos = 0
    /\ mdResult = <<>>
    /\ mdLast = NoIteration

\* lines 10-133: one iteration of the while loop
parse_markdown_formatting ==
    /\ mdPos < Len(mdText)
    /\ LET it == LoopBody(mdText, mdPos)
       IN  /\ mdResult' = mdResult \o it.items
           /\ mdPos' = it.next
           /\ mdLast' = [branch |-> it.branch, items |-> it.items,
                         next |-> it.next, from |-> mdPos]
    /\ UNCHANGED <<mdText, workerVars, prodVars, stopVars, print_queue,
                   obsVars, ippVars, devVars, tcpVars, attrVars>>

\* line 135: the loop has ended and result is returned
Returned == mdPos >= Len(mdText)

----------------------------------------------------------------------------
(* tcp_servers.py: start_server with text_handler and image_handler *)

\* start_server, line 7: buffer_size
buffer_size == 4096

\* The bytes a peer may send
StreamBytes == {65, 35, 10}

\* What a peer sends on one connection before it closes: at most
\* MaxStream bytes
Streams == UNION {[1..n -> StreamBytes] : n \in 0..MaxStream}

\* bytes.decode('cp437') of the bytes the model sends
Cp437(byte) ==
    CASE byte = 65 -> "A"
      [] byte = 35 -> "#"
      [] OTHER -> "\n"

\* text_handler, lines 85 and 88: the payload submitted for a chunk
text_handler(chunk) == [n \in 1..Len(chunk) |-> Cp437(chunk[n])]

\* image_handler, line 102: the payload submitted for a chunk
image_handler(chunk) == chunk

\* The listeners: create_text_server (port 9100) and create_image_server
\* (port 9101)
Listeners == {"text", "image"}

\* The payload the listener's handler submits for a chunk
Handled(which, chunk) ==
    IF which = "text" THEN text_handler(chunk) ELSE image_handler(chunk)

\* No connection has been accepted.
TCPIdle ==
    /\ tcpPc = "accept"
    /\ listener = "text"
    /\ pending = <<>>
    /\ received = <<>>
    /\ chunks = 0
    /\ tcpJobs = <<>>
    /\ conns = 0
    /\ timeouts = 0
    /\ backlog = 0
    /\ peerOpen = FALSE

\* A peer connects to the listener: the connection waits in the listen
\* queue of line 22 until it is accepted.
peer_connect ==
    /\ conns + backlog < MaxConns
    /\ backlog' = backlog + 1
    /\ UNCHANGED <<tcpPc, listener, pending, received, chunks, tcpJobs, conns,
                   timeouts, peerOpen, workerVars, prodVars, stopVars,
                   print_queue, obsVars, ippVars, mdVars, devVars, attrVars>>

\* The peer of the accepted connection closes it; what it has sent is
\* still received.
peer_close ==
    /\ tcpPc = "recv"
    /\ peerOpen
    /\ peerOpen' = FALSE
    /\ UNCHANGED <<tcpPc, listener, pending, received, chunks, tcpJobs, conns,
                   timeouts, backlog, workerVars, prodVars, stopVars,
                   print_queue, obsVars, ippVars, mdVars, devVars, attrVars>>

\* start_server, lines 29-33: a waiting connection is accepted; the peer
\* will send some bytes.
start_server_accept ==
    /\ tcpPc = "accept"
    /\ backlog > 0
    /\ backlog' = backlog - 1
    /\ peerOpen' = TRUE
    /\ listener' \in Listeners
    /\ pending' \in Streams
    /\ received' = <<>>
    /\ chunks' = 0
    /\ tcpJobs' = <<>>
    /\ timeouts' = 0
    /\ conns' = conns + 1
    /\ tcpPc' = "recv"
    /\ UNCHANGED <<workerVars, prodVars, stopVars, print_queue, obsVars,
                   ippVars, mdVars, devVars, attrVars>>

\* start_server, lines 38-48: recv returns a chunk of what the peer has
\* sent, of at most buffer_size bytes, and the handler is called with it:
\* add_print_job puts a job with the chunk as its payload.
start_server_recv ==
    /\ tcpPc = "recv"
    /\ pending # <<>>
    /\ \E n \in 1..(IF Len(pending) < buffer_size THEN Len(pending) ELSE buffer_size) :
          LET chunk == SubSeq(pending, 1, n)
          IN  /\ received' = received \o chunk
              /\ pending' = SubSeq(pending, n + 1, Len(pending))
              /\ tcpJobs' = Append(tcpJobs, Handled(listener, chunk))
              /\ print_queue' = Append(print_queue,
                                       PrintJob(nextId, listener, Handled(listener, chunk)))
    /\ chunks' = chunks + 1
    /\ nextId' = nextId + 1
    /\ UNCHANGED <<tcpPc, listener, conns, timeouts, backlog, peerOpen,
                   workerVars, prodPc, prodJob,
                   stopVars, obsVars, ippVars, mdVars, devVars, attrVars>>

\* start_server, lines 50-54: no data for the timeout period; the loop
\* goes on waiting.
start_server_timeout ==
    /\ tcpPc = "recv"
    /\ timeouts < MaxTimeouts
    /\ timeouts' = timeouts + 1
    /\ UNCHANGED <<tcpPc, listener, pending, received, chunks, tcpJobs, conns,
                   backlog, peerOpen,
                   workerVars, prodVars, stopVars, print_queue, obsVars,
                   ippVars, mdVars, devVars, attrVars>>

\* start_server, lines 39-42 and 62-67: recv returns b'' once the peer has
\* closed and all it sent has been received; the connection is closed and
\* the listener accepts again.
start_server_close ==
    /\ tcpPc = "recv"
    /\ pending = <<>>
    /\ ~peerOpen
    /\ tcpPc' = "accept"
    /\ UNCHANGED <<listener, pending, received, chunks, tcpJobs, conns, timeouts,
                   backlog, peerOpen, workerVars, prodVars, stopVars, print_queue, obsVars,
                   ippVars, mdVars, devVars, attrVars>>

TCPNext ==
    \/ peer_connect
    \/ peer_close
    \/ start_server_accept
    \/ start_server_recv
    \/ start_server_timeout
    \/ start_server_close

----------------------------------------------------------------------------
(* printer_manager.py: _print_text_job and _print_markdown_formatted_data *)

\* parse_markdown_formatting(text): the items of all iterations from
\* position p on
RECURSIVE CompileFrom(_, _)
CompileFrom(s, p) ==
    IF p >= Len(s) THEN <<>>
    ELSE LET it == LoopBody(s, p)
         IN  it.items \o CompileFrom(s, it.next)

\* The list of line 100 without '#'.
markdown_patterns_without_hash ==
    <<<<"*", "*">>, <<"_", "_">>, <<"~", "~">>, <<"<", "L", ">">>,
      <<"<", "C", ">">>, <<"<", "R", ">">>, <<"<", "2", "H", ">">>,
      <<"<", "2", "W", ">">>, <<"<">>, <<"x">>, <<">", ">", ">">>>>

\* _print_text_job, line 100
markdown_patterns ==
    <<<<"*", "*">>, <<"_", "_">>, <<"~", "~">>, <<"#">>, <<"<", "L", ">">>,
      <<"<", "C", ">">>, <<"<", "R", ">">>, <<"<", "2", "H", ">">>,
      <<"<", "2", "W", ">">>, <<"<">>, <<"x">>, <<">", ">", ">">>>>

\* _print_text_job, line 101
has_markdown(data) ==
    \E n \in 1..Len(markdown_patterns) : FindFrom(data, markdown_patterns[n], 0) # -1

\* The keyword arguments of p.set(...): "-" (-1 for a number) stands for
\* an argument that is not given.
NoArgs ==
    [normal_textsize |-> "-", double_height |-> "-", double_width |-> "-",
     custom_size |-> "-", width |-> -1, height |-> -1, bold |-> "-",
     underline |-> -1, invert |-> "-", align |-> "-"]

\* The calls made on the device: p.set(**args), p.text(t), p.cut()
SetCall(args) == [op |-> "set", args |-> args, text |-> <<>>]
TextCall(t) == [op |-> "text", args |-> NoArgs, text |-> t]
CutCall == [op |-> "cut", args |-> NoArgs, text |-> <<>>]

\* A header table in which level 3 is styled as the levels after it.
HeaderArgsWithoutLevelThree(level) ==
    CASE level = 1 -> [NoArgs EXCEPT !.double_height = "True", !.double_width = "True",
                                     !.bold = "True", !.align = "center"]
      [] level = 2 -> [NoArgs EXCEPT !.double_height = "True", !.bold = "True",
                                     !.align = "center"]
      [] OTHER -> [NoArgs EXCEPT !.bold = "True", !.underline = 1]

\* _print_markdown_formatted_data, lines 174-181: the arguments of the
\* p.set call made for a header of this level
HeaderArgs(level) ==
    CASE level = 1 -> [NoArgs EXCEPT !.double_height = "True", !.double_width = "True",
                                     !.bold = "True", !.align = "center"]
      [] level = 2 -> [NoArgs EXCEPT !.double_height = "True", !.bold = "True",
                                     !.align = "center"]
      [] level = 3 -> [NoArgs EXCEPT !.double_width = "True", !.bold = "True"]
      [] OTHER -> [NoArgs EXCEPT !.bold = "True", !.underline = 1]

\* line 190
align_map(align_type) ==
    CASE align_type = "l" -> "left"
      [] align_type = "c" -> "center"
      [] OTHER -> "right"

NormalTextsize == SetCall([NoArgs EXCEPT !.normal_textsize = "True"])

\* _print_markdown_formatted_data, lines 135-202: the calls made for one
\* item of parsed_data
ItemCalls(item) ==
    LET around(before, after) ==
            <<SetCall(before), TextCall(item.text), SetCall(after)>>
    IN  CASE item.type = "text" -> <<TextCall(item.text)>>
          [] item.type = "paper_cut" -> <<TextCall(<<"\n", "\n", "\n">>), CutCall>>
          [] item.type = "format" /\ item.kind = "bold" ->
                around([NoArgs EXCEPT !.bold = "True"], [NoArgs EXCEPT !.bold = "False"])
          [] item.type = "format" /\ item.kind = "underline" ->
                around([NoArgs EXCEPT !.underline = 1], [NoArgs EXCEPT !.underline = 0])
          [] item.type = "format" /\ item.kind = "invert" ->
                around([NoArgs EXCEPT !.invert = "True"], [NoArgs EXCEPT !.invert = "False"])
          [] item.type = "format" /\ item.kind = "double_height" ->
                around([NoArgs EXCEPT !.double_height = "True"], NormalTextsize.args)
          [] item.type = "format" /\ item.kind = "double_width" ->
                around([NoArgs EXCEPT !.double_width = "True"], NormalTextsize.args)
          [] item.type = "header" ->
                around(HeaderArgs(item.n), NormalTextsize.args)
          [] item.type = "align" ->
                around([NoArgs EXCEPT !.align = align_map(item.kind)],
                       [NoArgs EXCEPT !.align = "left"])
          [] item.type = "custom_size" ->
                around([NoArgs EXCEPT !.custom_size = "True", !.width = item.n,
                                      !.height = item.m],
                       NormalTextsize.args)
          [] OTHER -> <<>>

\* A call made for the item at this index of parsed_data (0: for none)
Tagged(calls, index) ==
    [n \in 1..Len(calls) |->
        [item |-> index, op |-> calls[n].op, args |-> calls[n].args,
         text |-> calls[n].text]]

\* The loop of line 134 running over parsed_data from its last item to
\* its first.
RECURSIVE MarkdownCallsBackwards(_, _)
MarkdownCallsBackwards(parsed, upto) ==
    IF upto = 0 THEN <<>>
    ELSE Tagged(ItemCalls(parsed[upto]), upto)
         \o MarkdownCallsBackwards(parsed, upto - 1)

\* _print_markdown_formatted_data, lines 134-202: the calls of the loop
\* for the first upto items of parsed_data
RECURSIVE MarkdownCalls(_, _)
MarkdownCalls(parsed, upto) ==
    IF upto = 0 THEN <<>>
    ELSE MarkdownCalls(parsed, upto - 1)
         \o Tagged(ItemCalls(parsed[upto]), upto)

\* _print_markdown_formatted_data, lines 132-204: the loop and the
\* p.set(normal_textsize=True) that follows it
print_markdown_formatted_data(parsed) ==
    MarkdownCalls(parsed, Len(parsed)) \o Tagged(<<NormalTextsize>>, 0)

\* _print_text_job, lines 100-109: the calls made once the device is open
TextJobCalls(data) ==
    IF has_markdown(data)
    THEN print_markdown_formatted_data(CompileFrom(data, 0))
    ELSE Tagged(<<TextCall(data)>>, 0)

\* The style state of the device: what the printer holds between commands.
DefaultStyle ==
    [size |-> "normal", width |-> 1, height |-> 1, bold |-> FALSE,
     underline |-> 0, invert |-> FALSE, align |-> "left"]

\* escpos Escpos.set as _print_markdown_formatted_data calls it: an
\* argument that is not given sends nothing.  custom_size sends the size
\* multipliers; otherwise normal_textsize, double_height or double_width
\* send the "normal text" command and then the size.  Whether the normal
\* text command also switches bold and underline off depends on the
\* device (clears); the arguments bold and underline of the same call are
\* sent after it.
Set(st, args, clears) ==
    LET sized == args.custom_size # "True"
                 /\ "True" \in {args.normal_textsize, args.double_height,
                                args.double_width}
        size == IF args.custom_size = "True" THEN "custom"
                ELSE IF ~sized THEN st.size
                ELSE IF args.double_width = "True" /\ args.double_height = "True"
                THEN "2x"
                ELSE IF args.double_width = "True" THEN "2w"
                ELSE IF args.double_height = "True" THEN "2h"
                ELSE "normal"
    IN  [size |-> size,
         width |-> IF args.custom_size = "True" THEN args.width
                   ELSE IF sized THEN 1 ELSE st.width,
         height |-> IF args.custom_size = "True" THEN args.height
                    ELSE IF sized THEN 1 ELSE st.height,
         bold |-> IF args.bold # "-" THEN args.bold = "True"
                  ELSE IF sized /\ clears THEN FALSE ELSE st.bold,
         underline |-> IF args.underline # -1 THEN args.underline
                       ELSE IF sized /\ clears THEN 0 ELSE st.underline,
         invert |-> IF args.invert # "-" THEN args.invert = "True" ELSE st.invert,
         align |-> IF args.align # "-" THEN args.align ELSE st.align]

\* The device's style after the first n of these calls have returned
RECURSIVE StyleAfter(_, _, _, _)
StyleAfter(calls, st, clears, n) ==
    IF n = 0 THEN st
    ELSE LET before == StyleAfter(calls, st, clears, n - 1)
         IN  IF calls[n].op = "set" THEN Set(before, calls[n].args, clears)
             ELSE before

\* The texts of the text jobs
JobTexts ==
    Examples \cup
    {<<"o", "k", "\n">>,
     <<"#", "T">>,
     <<"#", "#", "T">>,
     <<"#", "#", "#", "T">>,
     <<"#", "#", "#", "#", "T">>,
     <<"#", "#", "#", "#", "#", "T", "\n", "b">>,
     <<"#", "#", "#", " ", "T", "\n", "*", "*", "b", "*", "*">>,
     <<"<", "R", ">", "r", "<", "/", "R", ">", "\n", ">", ">", ">">>,
     <<"<", "3", "x", "2", ">", "a", "<", "/", "3", "x", "2", ">", "b">>,
     <<">", ">", ">", "\n", "a", "\n", ">", ">", ">", ">">>}

\* No text job has run: the device is in its default style.
PrintIdle ==
    /\ clearsWeight = FALSE
    /\ style = DefaultStyle
    /\ styleBefore = DefaultStyle
    /\ printData = <<>>
    /\ parsed_data = <<>>
    /\ applied = <<>>
    /\ printFault = FALSE
    /\ printed = 0
    /\ TCPIdle
    /\ AttrIdle

\* The device either does or does not switch bold and underline off on the
\* normal text command.
PrintInit ==
    /\ PMInit
    /\ IPPIdle
    /\ MDIdle
    /\ TCPIdle
    /\ AttrIdle
    /\ clearsWeight \in BOOLEAN
    /\ style = DefaultStyle
    /\ styleBefore = DefaultStyle
    /\ printData = <<>>
    /\ parsed_data = <<>>
    /\ applied = <<>>
    /\ printFault = FALSE
    /\ printed = 0

\* The calls with the style each leaves on the device, begun in style st
Styled(calls, st, clears) ==
    [n \in 1..Len(calls) |->
        [item |-> calls[n].item, op |-> calls[n].op, args |-> calls[n].args,
         text |-> calls[n].text, style |-> StyleAfter(calls, st, clears, n)]]

\* _print_text_job, lines 94-114: one text job from Usb(...) to the finally
\* clause.  Usb(...) or any call on the device returns or raises; the first
\* that raises ends the job in the except clause of line 110, which makes
\* no call on the device.
print_text_job ==
    /\ printed < MaxTextJobs
    /\ \E data \in JobTexts : \E opened \in BOOLEAN :
       \E calls \in {IF opened THEN TextJobCalls(data) ELSE <<>>} :
       \E log \in {Styled(calls, style, clearsWeight)} :
       \E returned \in 0..Len(calls) :
          /\ printData' = data
          /\ parsed_data' = IF opened /\ has_markdown(data)
                            THEN CompileFrom(data, 0) ELSE <<>>
          /\ applied' = SubSeq(log, 1, returned)
          /\ style' = IF returned = 0 THEN style ELSE log[returned].style
          /\ printFault' = (~opened \/ returned < Len(calls))
    /\ styleBefore' = style
    /\ printed' = printed + 1
    /\ UNCHANGED <<clearsWeight, workerVars, prodVars, stopVars, print_queue,
                   obsVars, ippVars, mdVars, tcpVars, attrVars>>

\* markdown_parser.py, lines 7-8: parse_markdown_formatting is called with a text
MDInit ==
    /\ PMInit
    /\ IPPIdle
    /\ PrintIdle
    /\ mdText \in Texts
    /\ mdPos = 0
    /\ mdResult = <<>>
    /\ mdLast = NoIteration

Init == PMInit /\ IPPIdle /\ MDIdle /\ PrintIdle

\* do_POST: one request handled from its headers to its response; each
\* payload it submits goes through add_print_job's put.
do_POST ==
    /\ posts < MaxPosts
    /\ \E req \in Requests :
          LET out == HandlePost(req)
          IN  /\ request' = req
              /\ http' = out.http
              /\ convIn' = out.convIn
              /\ dispatched' = out.dispatched
              /\ submitted' = out.submitted
              /\ wire' = Wire(req, out.http)
              /\ print_queue' = print_queue \o
                    [i \in 1..Len(out.submitted) |->
                        PrintJob(nextId + i - 1, "text", out.submitted[i])]
              /\ nextId' = nextId + Len(out.submitted)
    /\ posts' = posts + 1
    /\ UNCHANGED <<workerVars, prodPc, prodJob, stopVars, obsVars, mdVars, devVars, tcpVars, attrVars>>

PMNext == start \/ Producer \/ Stopper \/ Worker

\* The job queue and executor with its producers and the stopping thread.
Spec == Init /\ [][PMNext]_vars

\* The worker thread and the thread that starts it are scheduled, and a
\* driver call returns or raises.
FairSpec == Spec /\ WF_vars(start) /\ WF_vars(Worker)

\* FairSpec, and the thread that called stop() keeps running until stop()
\* returns.
StopSpec == FairSpec /\ WF_vars(stop_sentinel) /\ WF_vars(stop_join)

\* The IPP front-end: HTTPServer serves one POST at a time.
IPPSpec == Init /\ [][do_POST]_vars

\* The markup compiler, called with each text.
MDSpec == MDInit /\ [][parse_markdown_formatting]_vars

\* The text jobs the worker prints, one after the other, on one device.
PrintSpec == PrintInit /\ [][print_text_job]_vars

\* A raw TCP listener: start_server serves one connection at a time.
TCPSpec == Init /\ [][TCPNext]_vars

\* TCPSpec with the listener's thread running: it accepts when a connection
\* waits and it is at accept, and recv returns what has arrived or the
\* end of the stream.
TCPFairSpec ==
    /\ TCPSpec
    /\ WF_vars(start_server_accept)
    /\ WF_vars(start_server_recv)
    /\ WF_vars(start_server_close)

\* _parse_ipp_attributes applied to a request body
AttrInit ==
    /\ PMInit
    /\ IPPIdle
    /\ MDIdle
    /\ clearsWeight = FALSE
    /\ style = DefaultStyle
    /\ styleBefore = DefaultStyle
    /\ printData = <<>>
    /\ parsed_data = <<>>
    /\ applied = <<>>
    /\ printFault = FALSE
    /\ printed = 0
    /\ TCPIdle
    /\ AttrCalled

AttrSpec == AttrInit /\ [][parse_ipp_attributes]_vars

----------------------------------------------------------------------------
(* Claims about the job queue and executor *)

\* A driver call for job b was made before one for job a.
CalledBefore(b, a) ==
    \E x, y \in 1..Len(device) : x < y /\ device[x] = b /\ device[y] = a

Finished(j) == jobState[j] \in {"Completed", "Failed"}
Begun(j) == jobState[j] \in {"Executing", "Completed", "Failed"}

\* C1 as stated: if B's add_print_job call completes after A's, every
\* driver call made for A happens before any driver call made for B.
C1_CompletionOrder ==
    \A i, j \in 1..Len(retOrder) :
        i < j => ~CalledBefore(retOrder[j], retOrder[i])

\* C1 amended: if B's add_print_job call begins after A's has returned, every
\* driver call made for A happens before any driver call made for B: B is
\* not begun before A is Completed or Failed.
C1_SubmissionOrder ==
    \A b \in JobIds : \A a \in startedAfter[b] :
        /\ ~CalledBefore(b, a)
        /\ Begun(b) => Finished(a)

\* Job 2 was submitted after job 1's submission had returned, and both
\* have had driver calls.
C1_Witness == 1 \in startedAfter[2] /\ device = <<1, 2>>

\* C2: at most one job is Executing at any time; the worker holds
\* printer_lock whenever it makes a driver call and for as long as the job
\* is Executing; the driver calls of two jobs are never interleaved.
C2_OneJobExecuting ==
    /\ Cardinality({j \in JobIds : jobState[j] = "Executing"}) <= 1
    /\ workerPc \in {"open", "apply"} =>
          printer_lock = "worker" /\ jobState[cur.id] = "Executing"
    /\ \A j \in JobIds :
          jobState[j] = "Executing" => printer_lock = "worker" /\ cur.id = j
    /\ \A x, y \in 1..Len(device) : x # y => device[x] # device[y]

\* The second job is between two of its driver calls while a producer is
\* still inside add_print_job.
C2_Witness ==
    /\ workerPc = "apply"
    /\ device = <<1, 2>>
    /\ \E p \in Producers : prodPc[p] = "return"

\* C3: once stop() has been called, no submitted job is placed in the
\* queue: the queue gains nothing but the sentinel.
C3_RejectedAfterStop ==
    [][stopPc # "idle" =>
          \A i \in 1..Len(print_queue') :
              \/ print_queue'[i] = NoneJob
              \/ \E j \in 1..Len(print_queue) : print_queue[j] = print_queue'[i]]_vars

\* C4: when stop() has returned, the worker thread has exited, the job that
\* was Executing when stop() was called is Completed or Failed, and from
\* then on the worker makes no driver call.
C4_StopDrains ==
    /\ [](stopPc = "returned" =>
            /\ workerPc \in {"unstarted", "exited"}
            /\ printer_lock = "free"
            /\ \A j \in JobIds : jobState[j] # "Executing"
            /\ stopSeen # 0 => Finished(stopSeen))
    /\ [][stopPc = "returned" => UNCHANGED <<workerVars, device>>]_vars

\* stop() was called while a job was Executing, and has returned.
C4_Witness == stopPc = "returned" /\ stopSeen # 0

\* C5: a driver error ends only the job it occurs in: the worker thread
\* exits only when stop() was called, the lock is free whenever the worker
\* is outside _process_print_job, and a job still queued after another job
\* failed is taken up unless stop() is called.
C5_FaultIsolated ==
    /\ [](workerPc = "exited" => ~is_running)
    /\ [](workerPc \in {"loop", "get", "acquire", "exited"} =>
             printer_lock = "free")
    /\ \A j \in JobIds :
          (jobState[j] = "Queued" /\ \E f \in JobIds : jobState[f] = "Failed")
             ~> (jobState[j] # "Queued" \/ stopPc # "idle")

\* A driver call of job 1 raised and job 2 was taken up after it.
C5_Witness == jobState[1] = "Failed" /\ Begun(2)

----------------------------------------------------------------------------
(* Claims about the IPP front-end *)

\* The operation ids of the dispatch table.
DispatchTable == {2, 4, 5, 6, 8, 9, 10, 11}

\* The document of a request body: the bytes that follow the
\* end-of-attributes tag ending its attribute groups.
DocumentOf(b) == Slice(b, EndOfAttrsPos(b) + 1, Len(b))

\* C6: a POST whose body has fewer than 8 bytes (Content-Length absent
\* or a number) is answered with HTTP 400 alone, is not dispatched and
\* submits no job.
C6_ShortBodyRejected ==
    (/\ posts > 0
     /\ request.content_length # NotANumber
     /\ Len(ReadBody(request)) < 8)
    => /\ http = <<HttpError(BadRequest)>>
       /\ dispatched = ""
       /\ convIn = <<>>
       /\ submitted = <<>>

\* Seven bytes of a Print-Job request were read and rejected.
C6_Witness ==
    /\ posts > 0
    /\ request.content_length = 7
    /\ OpOf(request.sent) = 2
    /\ http = <<HttpError(BadRequest)>>

\* C7: an operation id outside the dispatch table is answered with IPP
\* status 0x0501 under the request's id, and nothing is converted or
\* submitted.
C7_UnsupportedOperation ==
    (/\ posts > 0
     /\ request.content_length # NotANumber
     /\ Len(ReadBody(request)) >= 8
     /\ OpOf(ReadBody(request)) \notin DispatchTable)
    => /\ http = <<IppResponse(OperationNotSupported,
                               U32(ReadBody(request), 4), "none")>>
       /\ convIn = <<>>
       /\ submitted = <<>>

\* A Print-URI request (0x0003) that carries a document was answered.
C7_Witness ==
    /\ posts > 0
    /\ request.content_length = Len(request.sent)
    /\ OpOf(request.sent) = 3
    /\ EndOfAttrsPos(request.sent) # -1
    /\ DocumentOf(request.sent) = <<65>>
    /\ http # <<>>

\* C8: the bytes handed to the converter are the bytes that follow the
\* end-of-attributes tag ending the attribute groups.
C8_DocumentAfterEndTag ==
    (posts > 0 /\ convIn # <<>>)
    => /\ EndOfAttrsPos(ReadBody(request)) # -1
       /\ convIn = DocumentOf(ReadBody(request))

\* C9: a Print-Job or Send-Document POST (with an end-of-attributes tag)
\* submits at most one job: exactly one, the converter's output, with
\* status 0x0000 when the document is non-empty and conversion succeeds;
\* none, with status 0x0000, when the document is empty.
C9_OneJobPerPost ==
    (/\ posts > 0
     /\ dispatched \in {"print_job", "send_document"}
     /\ EndOfAttrsPos(ReadBody(request)) # -1)
    => LET b == ReadBody(request)
           done == <<IppResponse(SuccessfulOk, U32(b, 4), "none")>>
       IN  /\ Len(submitted) <= 1
           /\ (DocumentOf(b) # <<>> /\ request.env \in {"ok", "remove_fails"})
                 => submitted = <<request.text>> /\ http = done
           /\ DocumentOf(b) = <<>> => submitted = <<>> /\ http = done

\* C10: a Print-Job or Send-Document request answered with IPP status
\* 0x0500 submitted no job.
C10_ServerErrorNoJob ==
    (/\ posts > 0
     /\ dispatched \in {"print_job", "send_document"}
     /\ \E i \in 1..Len(http) : http[i].status = ServerErrorInternal)
    => submitted = <<>>

\* The operations answered without touching the job queue: Validate-Job,
\* Create-Job, Cancel-Job, Get-Job-Attributes, Get-Jobs and
\* Get-Printer-Attributes.
QueryOperations == {4, 5, 8, 9, 10, 11}

\* C11: a request of at least 8 bytes for Validate-Job, Create-Job,
\* Cancel-Job, Get-Job-Attributes, Get-Jobs or Get-Printer-Attributes is
\* answered with IPP status 0x0000, and nothing is converted or submitted.
C11_QueryOperationsSucceed ==
    (/\ posts > 0
     /\ request.content_length # NotANumber
     /\ Len(ReadBody(request)) >= 8
     /\ OpOf(ReadBody(request)) \in QueryOperations)
    => /\ Len(http) = 1
       /\ http[1].code = HttpOk
       /\ http[1].status = SuccessfulOk
       /\ convIn = <<>>
       /\ submitted = <<>>


\* The names of the multi-valued printer attributes, as bytes.
OperationsSupportedName == <<111, 112, 101, 114, 97, 116, 105, 111, 110, 115, 45, 115, 117, 112, 112, 111, 114, 116, 101, 100>>
DocumentFormatSupportedName == <<100, 111, 99, 117, 109, 101, 110, 116, 45, 102, 111, 114, 109, 97, 116, 45, 115, 117, 112, 112, 111, 114, 116, 101, 100>>
IppVersionsSupportedName == <<105, 112, 112, 45, 118, 101, 114, 115, 105, 111, 110, 115, 45, 115, 117, 112, 112, 111, 114, 116, 101, 100>>

\* The request ids the model's requests carry.
RequestIds == {U32(r, 0) : r \in RequestIdBytes}

\* The number of positions at which the byte string s occurs in b.
Occurrences(b, s) ==
    Cardinality({off \in 0..(Len(b) - Len(s)) :
                    SubSeq(b, off + 1, off + Len(s)) = s})

\* A multi-valued attribute in the layout of the claim: the value tag, a
\* name field of stated length n with the name, the first value; then for
\* every further value the tag, a zero-length name field and the value.
MultiValued(tag, n, name, values) ==
    <<tag>> \o PackH(n) \o name \o PackH(Len(values[1])) \o values[1]
    \o Concat([i \in 1..(Len(values) - 1) |->
                <<tag, 0, 0>> \o PackH(Len(values[i + 1])) \o values[i + 1]])

\* The encoded Get-Printer-Attributes response holds the name once, the
\* name length stated before it is not zero, and the attribute is laid out
\* there as MultiValued.
EmittedMultiValued(response, tag, name, values) ==
    /\ Occurrences(response, name) = 1
    /\ LET at == CHOOSE off \in 0..(Len(response) - Len(name)) :
                    SubSeq(response, off + 1, off + Len(name)) = name
           n == U16(response, at - 2)
           emitted == MultiValued(tag, n, name, values)
       IN  /\ n # 0
           /\ SubSeq(response, at - 2, at - 3 + Len(emitted)) = emitted

\* The values of operations-supported in declared order, as 4-byte integers.
OperationValues == [i \in 1..Len(ops) |-> PackI(ops[i])]

MultiValuedEncoding ==
    \A id \in RequestIds :
        LET response == EncodeResponse(SuccessfulOk, id, "printer")
        IN  /\ Len(ops) = 7
            /\ \A i \in 1..Len(ops) : Len(OperationValues[i]) = 4
            /\ EmittedMultiValued(response, 35, OperationsSupportedName, OperationValues)
            /\ EmittedMultiValued(response, 73, DocumentFormatSupportedName, formats)
            /\ EmittedMultiValued(response, 68, IppVersionsSupportedName, versions)

\* C12: in the response encoded for a Get-Printer-Attributes request,
\* operations-supported, document-format-supported and
\* ipp-versions-supported each carry one non-zero-length name field, on the
\* first value, and a zero-length name field on every further value, the
\* values in declared order; operations-supported has 7 values of 4 bytes.
C12_MultiValuedAttributes ==
    (posts > 0 /\ dispatched = "get_printer_attributes") => MultiValuedEncoding

\* A Get-Printer-Attributes request was handled.
C12_Witness ==
    /\ posts > 0
    /\ dispatched = "get_printer_attributes"
    /\ OpOf(ReadBody(request)) = 11
    /\ U32(ReadBody(request), 4) = 3

\* The attribute group of the response the encoder built for the request
\* handled last.
EncodedGroup ==
    CASE dispatched = "get_printer_attributes" -> "printer"
      [] dispatched = "get_job_attributes" -> "job"
      [] OTHER -> "none"

\* The request handled last reached _send_ipp_response.
ResponseEncoded ==
    /\ posts > 0
    /\ dispatched # ""
    /\ http # <<HttpError(BadRequest)>>

\* A reader's walk over a response from position pos with the
\* length-prefixed attribute layout (value tag, 2-byte name length, name,
\* 2-byte value length, value; group tags 0x01, 0x02, 0x04, 0x05 between
\* attributes): TRUE when every field lies inside the buffer and the walk
\* stops on an end-of-attributes tag that is the last byte.
RECURSIVE WalkEndsOnEndTag(_, _)
WalkEndsOnEndTag(b, pos) ==
    IF pos >= Len(b) THEN FALSE
    ELSE LET tag == b[pos + 1]
         IN  IF tag = 3 THEN pos = Len(b) - 1
             ELSE IF tag \in {1, 2, 4, 5} THEN WalkEndsOnEndTag(b, pos + 1)
             ELSE IF pos + 3 > Len(b) THEN FALSE
             ELSE LET p2 == pos + 3 + U16(b, pos + 1)
                  IN  IF p2 + 2 > Len(b) THEN FALSE
                      ELSE WalkEndsOnEndTag(b, p2 + 2 + U16(b, p2))

\* The walk over the response of each kind; the attributes do not depend
\* on the status code or the request id.
WellFormed ==
    [g \in {"none", "job", "printer"} |->
        \A id \in RequestIds :
            WalkEndsOnEndTag(EncodeResponse(SuccessfulOk, id, g), 8)]

\* C13: every response the encoder builds is well-formed: walking it with
\* the stated name and value lengths stays inside the response and ends on
\* its end-of-attributes tag.
C13_WellFormedAttributes == ResponseEncoded => WellFormed[EncodedGroup]

----------------------------------------------------------------------------
(* Claims about the markup compiler *)

\* The characters that begin or belong to a marker, tag, header or
\* paper-cut line.
MarkerChars == {"*", "_", "~", "#", "<", ">"}

\* The Text contents of a result, concatenated in order.
TextOf(items) == Concat([n \in 1..Len(items) |-> items[n].text])

\* C14: a text that is one run of literal characters compiles to a single
\* Text directive holding the whole run, not to one directive per
\* character.
C14_LiteralRunCoalesced ==
    (/\ Returned
     /\ mdText # <<>>
     /\ \A p \in 1..Len(mdText) : mdText[p] \notin MarkerChars)
    => mdResult = <<TextItem(mdText)>>

\* The text <2H>t</2H> or <2W>t</2W>, for the letter c = "H" or "W", with
\* no closing tag inside t.
DoubleSizeSpan(s, c) ==
    /\ Len(s) >= 9
    /\ SubSeq(s, 1, 4) = <<"<", "2", c, ">">>
    /\ \A q \in 4..(Len(s) - 5) :
          (SubSeq(s, q + 1, q + 5) = <<"<", "/", "2", c, ">">>) <=> (q = Len(s) - 5)

\* C15: <2H>t</2H> compiles to Style(double_height, t) and <2W>t</2W> to
\* Style(double_width, t), for every t without the closing tag.
C15_DoubleSizeSpans ==
    /\ (Returned /\ DoubleSizeSpan(mdText, "H"))
          => mdResult = <<FormatItem("double_height", SubSeq(mdText, 5, Len(mdText) - 5))>>
    /\ (Returned /\ DoubleSizeSpan(mdText, "W"))
          => mdResult = <<FormatItem("double_width", SubSeq(mdText, 5, Len(mdText) - 5))>>

\* The paired markers and the style each stands for.
PairedMarkers == {<<"*", "*">>, <<"_", "_">>, <<"~", "~">>}
StyleOf(marker) ==
    CASE marker = <<"*", "*">> -> "bold"
      [] marker = <<"_", "_">> -> "underline"
      [] OTHER -> "invert"

\* An iteration of the scan loop has run; it started at position mdLast.from.
Scanned == mdLast.branch # ""

\* The pair marker occurs in s at position q.
PairAt(s, q, marker) == q + 2 <= Len(s) /\ SubSeq(s, q + 1, q + 2) = marker

\* C16: when the scan meets a paired marker that has a closing pair later
\* in the text, the iteration appends exactly one Style item of the marker's
\* kind holding the text up to the first closing pair, and scanning resumes
\* right after that pair; so **hi** compiles to [Style(bold, hi)].
C16_PairedMarkerSpan ==
    /\ \A marker \in PairedMarkers :
          (/\ Scanned
           /\ PairAt(mdText, mdLast.from, marker)
           /\ \E q \in (mdLast.from + 2)..Len(mdText) : PairAt(mdText, q, marker))
          => LET close == CHOOSE q \in (mdLast.from + 2)..Len(mdText) :
                             /\ PairAt(mdText, q, marker)
                             /\ \A r \in (mdLast.from + 2)..(q - 1) :
                                   ~PairAt(mdText, r, marker)
             IN  /\ mdLast.items =
                       <<FormatItem(StyleOf(marker),
                                    SubSeq(mdText, mdLast.from + 3, close))>>
                 /\ mdPos = close + 2
    /\ (Returned /\ mdText = <<"*", "*", "h", "i", "*", "*">>)
          => mdResult = <<FormatItem("bold", <<"h", "i">>)>>
    /\ (Returned /\ mdText = <<"_", "_", "u", "_", "_", "~", "~", "i", "~", "~">>)
          => mdResult = <<FormatItem("underline", <<"u">>), FormatItem("invert", <<"i">>)>>

\* **hi** has been compiled to one bold item.
C16_Witness ==
    /\ Returned
    /\ mdText = <<"*", "*", "h", "i", "*", "*">>
    /\ mdResult = <<FormatItem("bold", <<"h", "i">>)>>

\* The only marker characters of s are one opening pair, which no closing
\* pair follows.
OnlyUnmatchedOpening(s) ==
    \E marker \in PairedMarkers : \E p \in 0..(Len(s) - 2) :
        /\ PairAt(s, p, marker)
        /\ \A q \in 1..Len(s) : q \notin {p + 1, p + 2} => s[q] \notin MarkerChars

\* C17: a text whose only marker is an opening pair with no closing pair
\* compiles to Text items only, whose contents concatenated in order are
\* the text.
C17_UnmatchedDegrades ==
    (Returned /\ OnlyUnmatchedOpening(mdText))
    => /\ \A n \in 1..Len(mdResult) : mdResult[n].type = "text"
       /\ TextOf(mdResult) = mdText

\* **unterminated has been compiled.
C17_Witness ==
    /\ Returned
    /\ mdText = <<"*", "*", "u", "n", "t", "e", "r", "m", "i", "n", "a", "t", "e", "d">>
    /\ Len(mdResult) = 14

\* s without its leading and trailing whitespace: the part of s between
\* its first and its last character that is not whitespace.
Stripped(s) ==
    IF \A q \in 1..Len(s) : s[q] \in Whitespace THEN <<>>
    ELSE LET a == CHOOSE q \in 1..Len(s) :
                     s[q] \notin Whitespace /\ \A r \in 1..(q - 1) : s[r] \in Whitespace
             z == CHOOSE q \in 1..Len(s) :
                     s[q] \notin Whitespace /\ \A r \in (q + 1)..Len(s) : s[r] \in Whitespace
         IN  SubSeq(s, a, z)

\* The end of the line that position p of s lies on: the position of its
\* newline, or the length of s on the last line.
EndOfLine(s, p) ==
    CHOOSE e \in p..Len(s) :
        /\ e = Len(s) \/ s[e + 1] = "\n"
        /\ \A q \in p..(e - 1) : s[q + 1] # "\n"

\* The number of # characters in the run that starts at position p of s.
Hashes(s, p) ==
    CHOOSE n \in 1..(Len(s) - p) :
        /\ \A q \in p..(p + n - 1) : s[q + 1] = "#"
        /\ p + n = Len(s) \/ s[p + n + 1] # "#"

\* C18: when the scan meets a run of n >= 1 # characters, the rest of the
\* line after the run and one optional space gives Header(n, text
\* stripped), followed by Text("\n") when the line ends with a newline and
\* by nothing at the end of the input; when the stripped text is empty
\* nothing is appended.  So "# Title\n" compiles to
\* [Header(1, "Title"), Text("\n")].
C18_Header ==
    /\ (Scanned /\ mdText[mdLast.from + 1] = "#")
          => LET p == mdLast.from
                 n == Hashes(mdText, p)
                 eol == EndOfLine(mdText, p + n)
                 b == IF p + n < Len(mdText) /\ mdText[p + n + 1] = " "
                      THEN p + n + 1 ELSE p + n
                 t == Stripped(SubSeq(mdText, b + 1, eol))
             IN  /\ mdLast.items =
                       IF t = <<>> THEN <<>>
                       ELSE IF eol < Len(mdText)
                            THEN <<HeaderItem(n, t), TextItem(<<"\n">>)>>
                            ELSE <<HeaderItem(n, t)>>
                 /\ mdPos = IF eol < Len(mdText) THEN eol + 1 ELSE Len(mdText)
    /\ (Returned /\ mdText = <<"#", " ", "T", "i", "t", "l", "e", "\n">>)
          => mdResult = <<HeaderItem(1, <<"T", "i", "t", "l", "e">>), TextItem(<<"\n">>)>>

\* "# Title\n" has been compiled.
C18_Witness ==
    /\ Returned
    /\ mdText = <<"#", " ", "T", "i", "t", "l", "e", "\n">>
    /\ Len(mdResult) = 2
    /\ mdResult[1].type = "header"

\* Position p of s is the start of a line that consists of 3 or more >
\* characters and nothing else.
CutLine(s, p) ==
    /\ p = 0 \/ s[p] = "\n"
    /\ \E n \in 3..(Len(s) - p) :
          /\ \A q \in p..(p + n - 1) : s[q + 1] = ">"
          /\ p + n = Len(s) \/ s[p + n + 1] = "\n"

\* C19: an iteration of the scan appends PaperCut exactly when it starts
\* at the start of a line that consists solely of 3 or more > characters,
\* and then it appends nothing else and consumes the line and its newline;
\* at any other > character (a line of 1 or 2, a run mixed with other
\* characters, a run not at the start of a line) it appends that character
\* as literal text.
C19_PaperCut ==
    /\ Scanned
          => LET p == mdLast.from
                 eol == EndOfLine(mdText, p)
             IN  /\ (\E n \in 1..Len(mdLast.items) : mdLast.items[n].type = "paper_cut")
                       <=> CutLine(mdText, p)
                 /\ CutLine(mdText, p)
                       => /\ mdLast.items = <<PaperCutItem>>
                          /\ mdPos = IF eol < Len(mdText) THEN eol + 1 ELSE Len(mdText)
                 /\ (mdText[p + 1] = ">" /\ ~CutLine(mdText, p))
                       => /\ mdLast.items = <<TextItem(<<">">>)>>
                          /\ mdPos = p + 1
    /\ (Returned /\ mdText = <<">", ">", "\n">>)
          => mdResult = <<TextItem(<<">">>), TextItem(<<">">>), TextItem(<<"\n">>)>>

\* A line of three > followed by a letter has been compiled.
C19_Witness ==
    /\ Returned
    /\ mdText = <<">", ">", ">", "\n", "a">>
    /\ mdResult = <<PaperCutItem, TextItem(<<"a">>)>>

\* C20: every CustomSize item has width and height in 1..9, and is
\* appended only at an opening tag <WxH> of two digits whose closing tag
\* </WxH> with the same digits ends right where scanning resumes.
C20_CustomSize ==
    /\ \A n \in 1..Len(mdResult) :
          mdResult[n].type = "custom_size"
          => mdResult[n].n \in 1..9 /\ mdResult[n].m \in 1..9
    /\ (Scanned /\ \E n \in 1..Len(mdLast.items) : mdLast.items[n].type = "custom_size")
          => LET p == mdLast.from
                 w == mdText[p + 2]
                 h == mdText[p + 4]
             IN  /\ Len(mdLast.items) = 1
                 /\ SubSeq(mdText, p + 1, p + 5) = <<"<", w, "x", h, ">">>
                 /\ IsDigit(w) /\ IsDigit(h)
                 /\ mdLast.items[1].n = IntOf(w)
                 /\ mdLast.items[1].m = IntOf(h)
                 /\ mdPos >= p + 11
                 /\ SubSeq(mdText, mdPos - 5, mdPos) = <<"<", "/", w, "x", h, ">">>


----------------------------------------------------------------------------
(* Claims about the IPP front-end's responses *)

\* The positions of an event on the wire.
EventsAt(event) == {n \in 1..Len(wire) : wire[n] = event}

\* C28: a POST with an Expect: 100-continue header (in either spelling) has
\* the interim 100 written once, first, before any read of the body, and
\* the final response is written after it; a POST without the header has no
\* interim response written.
C28_InterimBeforeBody ==
    posts > 0 =>
       /\ request.expect \in {"100-continue", "100-Continue"} =>
             /\ EventsAt("100") = {1}
             /\ \A n \in EventsAt("read") : n > 1
             /\ EventsAt("response") # {}
             /\ \A n \in EventsAt("response") : n > 1
       /\ request.expect = "" => EventsAt("100") = {}

\* A Print-Job request sent with Expect: 100-Continue was acknowledged,
\* read and answered with HTTP 200.
C28_Witness ==
    /\ posts > 0
    /\ request.expect = "100-Continue"
    /\ OpOf(request.sent) = 2
    /\ wire = <<"100", "read", "response">>
    /\ Len(http) = 1
    /\ http[1].code = HttpOk


\* C24: every POST handled has exactly one final response written, as the
\* handler's last act on the connection, and the payloads it submitted are
\* the last on the queue, none of them taken by the worker or sent to the
\* device.
C24_OneResponse ==
    posts > 0 =>
       /\ Len(http) = 1
       /\ EventsAt("response") = {Len(wire)}
       /\ Len(print_queue) >= Len(submitted)
       /\ \A n \in 1..Len(submitted) :
             print_queue[Len(print_queue) - Len(submitted) + n].data = submitted[n]
       /\ cur = NoneJob
       /\ device = <<>>

\* A Print-Job request whose document was converted: answered once with
\* status 0x0000 while the job it submitted waits on the queue.
C24_Witness ==
    /\ posts > 0
    /\ dispatched = "print_job"
    /\ submitted # <<>>
    /\ http = <<IppResponse(SuccessfulOk, U32(request.sent, 4), "none")>>
    /\ Len(print_queue) = 1
    /\ device = <<>>


\* The IPP status codes the front-end embeds in an HTTP 200 response.
IppStatusCodes == {SuccessfulOk, ServerErrorInternal, OperationNotSupported}

\* C25: a POST whose body, as read, has at least 8 bytes is answered with
\* HTTP 200 carrying IPP status 0x0000, 0x0500 or 0x0501, or, only when the
\* body has no end-of-attributes tag ending its attribute groups, with
\* HTTP 400; it is never answered with another HTTP status.
C25_HttpOkWithIppStatus ==
    (/\ posts > 0
     /\ request.content_length # NotANumber
     /\ Len(ReadBody(request)) >= 8)
    => /\ Len(http) = 1
       /\ \/ /\ http[1].code = HttpOk
             /\ http[1].status \in IppStatusCodes
          \/ /\ http[1].code = BadRequest
             /\ EndOfAttrsPos(ReadBody(request)) = -1

\* The same for every operation but Get-Printer-Attributes.
C25_ExceptGetPrinterAttributes ==
    (posts > 0 /\ request.content_length # NotANumber
       /\ Len(ReadBody(request)) >= 8 /\ OpOf(ReadBody(request)) # 11)
    => C25_HttpOkWithIppStatus


\* A Print-Job request as a Send-Document request and the reverse: the
\* low byte of the operation id is exchanged, all else is kept.
SwapOperation(req) ==
    [req EXCEPT !.sent = [req.sent EXCEPT ![4] = IF req.sent[4] = 2 THEN 6 ELSE 2]]

\* C27: a Print-Job or Send-Document POST is handled as the same request
\* with the other of the two operation ids would be: the same responses
\* (HTTP status, IPP status, request id and attribute group, hence the same
\* bytes), the same document converted and the same payloads submitted.
C27_SendDocumentAsPrintJob ==
    (posts > 0 /\ OpOf(request.sent) \in {2, 6})
    => LET other == HandlePost(SwapOperation(request))
       IN  /\ OpOf(SwapOperation(request).sent) \in {2, 6} \ {OpOf(request.sent)}
           /\ http = other.http
           /\ convIn = other.convIn
           /\ submitted = other.submitted
           /\ wire = Wire(SwapOperation(request), other.http)

\* A Send-Document request whose document was converted and submitted.
C27_Witness ==
    /\ posts > 0
    /\ OpOf(request.sent) = 6
    /\ dispatched = "send_document"
    /\ convIn # <<>>
    /\ submitted = <<request.text>>
    /\ http = <<IppResponse(SuccessfulOk, U32(request.sent, 4), "none")>>


----------------------------------------------------------------------------
(* Claims about the life of a job *)

Terminal == {"Completed", "Failed"}

\* The steps a job's state may take.
JobSteps ==
    {<<"none", "Queued">>, <<"Queued", "Executing">>,
     <<"Executing", "Completed">>, <<"Executing", "Failed">>}

\* The job is on the queue or in the worker's hands.
Held(j) ==
    \/ cur.id = j
    \/ \E n \in 1..Len(print_queue) : print_queue[n].id = j

\* C26: with the worker scheduled and every driver call returning or
\* raising, a job that add_print_job accepted reaches Completed or Failed
\* unless stop() is called; its state only moves none -> Queued ->
\* Executing -> Completed or Failed; and once Completed or Failed it is
\* neither on the queue nor taken by the worker again.
C26_EveryJobTerminates ==
    /\ \A j \in JobIds :
          (jobState[j] = "Queued") ~> (jobState[j] \in Terminal \/ stopPc # "idle")
    /\ [][\A j \in JobIds :
             jobState'[j] # jobState[j] => <<jobState[j], jobState'[j]>> \in JobSteps]_vars
    /\ [](\A j \in JobIds : jobState[j] \in Terminal => ~Held(j))

\* With stop() never called, one job has Completed and another has Failed.
C26_Witness ==
    /\ stopPc = "idle"
    /\ \E j \in JobIds : jobState[j] = "Completed"
    /\ \E j \in JobIds : jobState[j] = "Failed"
    /\ print_queue = <<>>
    /\ cur = NoneJob


----------------------------------------------------------------------------
(* Claims about the rendering of a text job on the device *)

\* The positions in applied of the text calls made for header items.
HeaderTextCalls ==
    {n \in 1..Len(applied) :
        /\ applied[n].op = "text"
        /\ applied[n].item > 0
        /\ parsed_data[applied[n].item].type = "header"}

\* What a p.set call asks for, by name.
Asked(args) ==
    {name \in {"double_height", "double_width", "bold", "invert",
               "normal_textsize", "custom_size"} :
        (CASE name = "double_height" -> args.double_height
           [] name = "double_width" -> args.double_width
           [] name = "bold" -> args.bold
           [] name = "invert" -> args.invert
           [] name = "normal_textsize" -> args.normal_textsize
           [] OTHER -> args.custom_size) = "True"}
    \cup (IF args.underline >= 1 THEN {"underline"} ELSE {})
    \cup (IF args.align = "-" THEN {}
          ELSE IF args.align = "center" THEN {"centred"} ELSE {args.align})

\* C30: the text of a header is printed right after a p.set call that asks
\* for double height, double width, bold and centred at level 1; double
\* height, bold and centred at level 2; double width and bold at level 3;
\* bold and underline at every level from 4 on; and is printed in that
\* style.
C30_HeaderStyle ==
    \A n \in HeaderTextCalls :
       LET level == parsed_data[applied[n].item].n
           st == applied[n].style
       IN  /\ n > 1
           /\ applied[n - 1].op = "set"
           /\ applied[n - 1].item = applied[n].item
           /\ Asked(applied[n - 1].args) =
                 (CASE level = 1 -> {"double_height", "double_width", "bold", "centred"}
                    [] level = 2 -> {"double_height", "bold", "centred"}
                    [] level = 3 -> {"double_width", "bold"}
                    [] OTHER -> {"bold", "underline"})
           /\ st.bold
           /\ level = 1 => st.size = "2x" /\ st.align = "center"
           /\ level = 2 => st.size = "2h" /\ st.align = "center"
           /\ level = 3 => st.size = "2w"
           /\ level >= 4 => st.underline = 1

\* A level-5 header was printed, and the text after it too.
C30_Witness ==
    /\ printed > 0
    /\ ~printFault
    /\ \E n \in HeaderTextCalls :
          /\ parsed_data[applied[n].item].n = 5
          /\ applied[n].text = <<"T">>
          /\ applied[n].style.bold
          /\ applied[n].style.underline = 1


\* The positions in applied of the calls made for the item at this index
\* of parsed_data.
CallsFor(index) == {n \in 1..Len(applied) : applied[n].item = index}

\* The text a directive prints.
PrintedText(item) ==
    IF item.type = "paper_cut" THEN <<"\n", "\n", "\n">> ELSE item.text

\* C29: in a text job that goes through the compiler, the calls made on
\* the device follow the order of the compiled items: a call for a later
\* item never precedes a call for an earlier one and no item is passed
\* over; when no call raised, every item has had its text printed exactly
\* once; and a paper cut is the call printing three line feeds followed at
\* once by the cut.
C29_DirectiveOrder ==
    (printed > 0 /\ parsed_data # <<>>)
    => /\ parsed_data = CompileFrom(printData, 0)
       /\ \A n, m \in 1..Len(applied) :
             (n < m /\ applied[m].item > 0) =>
                 /\ applied[n].item > 0
                 /\ applied[n].item <= applied[m].item
       /\ \A n \in 1..Len(applied) : \A j \in 1..(applied[n].item - 1) :
             CallsFor(j) # {}
       /\ ~printFault =>
             \A j \in 1..Len(parsed_data) :
                /\ \E n \in CallsFor(j) :
                      /\ applied[n].op = "text"
                      /\ applied[n].text = PrintedText(parsed_data[j])
                      /\ \A m \in CallsFor(j) : applied[m].op = "text" => m = n
                /\ parsed_data[j].type = "paper_cut" =>
                      \E n \in CallsFor(j) :
                         /\ CallsFor(j) = {n, n + 1}
                         /\ applied[n].op = "text"
                         /\ applied[n + 1].op = "cut"
                /\ parsed_data[j].type # "paper_cut" =>
                      \A n \in CallsFor(j) : applied[n].op # "cut"

\* The job "## a b \n>>>\n" ran to its end: a header, a line feed and a
\* paper cut, whose cut followed its line feeds.
C29_Witness ==
    /\ printed > 0
    /\ ~printFault
    /\ Len(parsed_data) = 3
    /\ parsed_data[1].type = "header"
    /\ parsed_data[3].type = "paper_cut"
    /\ Len(applied) = 7
    /\ applied[5].text = <<"\n", "\n", "\n">>
    /\ applied[6].op = "cut"


\* The positions in applied of the last call made for a header item: the
\* p.set(normal_textsize=True) of line 184, its text having been printed.
HeaderRendered ==
    {n \in 2..Len(applied) :
        /\ applied[n].op = "set"
        /\ applied[n].item > 0
        /\ parsed_data[applied[n].item].type = "header"
        /\ applied[n - 1].op = "text"
        /\ applied[n - 1].item = applied[n].item}

\* C22: once a header has been rendered on a device that was in its
\* default style when the job began, the device is at normal size, bold
\* off, underline off and left alignment, whatever the header's level.
C22_HeaderResetsStyle ==
    (printed > 0 /\ styleBefore = DefaultStyle)
    => \A n \in HeaderRendered :
          /\ applied[n].style.size = "normal"
          /\ applied[n].style.bold = FALSE
          /\ applied[n].style.underline = 0
          /\ applied[n].style.align = "left"

\* The size alone: every header leaves the device at normal size.
C22_HeaderResetsSize ==
    (printed > 0 /\ styleBefore = DefaultStyle)
    => \A n \in HeaderRendered : applied[n].style.size = "normal"

\* On a device whose normal-text command switches bold and underline off,
\* a header still leaves the alignment it set.
C22_WeightResetWhereDeviceClears ==
    (printed > 0 /\ styleBefore = DefaultStyle /\ clearsWeight)
    => \A n \in HeaderRendered :
          /\ applied[n].style.bold = FALSE
          /\ applied[n].style.underline = 0

\* C23: when a text job has ended, completed or cut short by a device
\* error, the device is in its default style.
C23_DefaultStyleAtJobEnd ==
    printed > 0 => style = DefaultStyle

\* The same for the jobs that ran to their end on a device that was in
\* its default style, headers apart.
C23_CompletedJobsWithoutHeaders ==
    (/\ printed > 0
     /\ ~printFault
     /\ styleBefore = DefaultStyle
     /\ \A j \in 1..Len(parsed_data) : parsed_data[j].type # "header")
    => style = DefaultStyle


\* On either kind of device a level-1 header leaves the device centred.
C22_CentredAfterHeader ==
    /\ printed > 0
    /\ clearsWeight
    /\ ~printFault
    /\ styleBefore = DefaultStyle
    /\ \E n \in HeaderRendered :
          /\ parsed_data[applied[n].item].n = 1
          /\ applied[n].style.align = "center"
          /\ applied[n].style.bold = FALSE

\* A bold span whose text call raised leaves the device bold.
C23_BoldAfterError ==
    /\ printed > 0
    /\ printFault
    /\ styleBefore = DefaultStyle
    /\ printData = <<"*", "*", "h", "i", "*", "*">>
    /\ Len(applied) = 1
    /\ style.bold


----------------------------------------------------------------------------
(* Claims about the raw TCP listeners *)

\* C21: once a connection to the text or image listener on which bytes
\* were received is closed, exactly one job has been submitted for it,
\* whose payload is all the bytes received on the connection (decoded, for
\* the text listener), in however many chunks they arrived.
C21_OneJobPerConnection ==
    (conns > 0 /\ tcpPc = "accept" /\ received # <<>>)
    => tcpJobs = <<Handled(listener, received)>>

\* No job is submitted for a connection before the peer has closed it.
C21_NoJobBeforeClose ==
    (conns > 0 /\ tcpPc = "recv") => tcpJobs = <<>>

\* The same for the connections whose bytes arrived in one chunk, once
\* they are closed.
C21_OneChunkOneJob ==
    (conns > 0 /\ tcpPc = "accept" /\ chunks = 1)
    => tcpJobs = <<Handled(listener, received)>>

\* Two bytes sent to the text listener arrived in two chunks and the
\* connection was closed: two jobs of one character each.
C21_TwoChunksTwoJobs ==
    /\ conns > 0
    /\ tcpPc = "accept"
    /\ listener = "text"
    /\ received = <<35, 65>>
    /\ chunks = 2
    /\ tcpJobs = <<<<"#">>, <<"A">>>>


----------------------------------------------------------------------------
(* Further claims about the markup compiler *)

\* The branches an iteration of the scan loop can take.
Branches ==
    {"paper_cut", "bold", "underline", "invert", "header", "align",
     "double_height", "double_width", "custom_size", "custom_size_malformed",
     "unmatched", "literal"}

\* C31: every iteration of the scan loop, whatever branch it takes, leaves
\* the scan position greater than it found it and not beyond the end of
\* the text.
C31_ScanAdvances ==
    /\ mdPos <= Len(mdText)
    /\ Scanned =>
          /\ mdLast.branch \in Branches
          /\ mdLast.next = mdPos
          /\ mdLast.from < mdLast.next
          /\ mdLast.next <= Len(mdText)

\* A header line that is not the last of its text was scanned: the
\* position went past the line and its newline in one iteration.
C31_Witness ==
    /\ Scanned
    /\ mdLast.branch = "header"
    /\ mdLast.next > mdLast.from + 2
    /\ mdLast.next < Len(mdText)


----------------------------------------------------------------------------
(* Attribute parsing *)

\* The texts of the requested-attributes fields among the leading tokens
\* that lie whole within the first room bytes and before the first
\* end-of-attributes tag.
RECURSIVE Present(_, _)
Present(tokens, room) ==
    IF tokens = <<>> THEN <<>>
    ELSE LET t == Head(tokens)
         IN  IF t.kind = "end" \/ Len(t.bytes) > room THEN <<>>
             ELSE (IF t.kind = "requested" THEN <<t.text>> ELSE <<>>)
                  \o Present(Tail(tokens), room - Len(t.bytes))

\* The number of leading tokens that lie whole within the first room bytes
\* and before the first end-of-attributes tag.
RECURSIVE Passed(_, _)
Passed(tokens, room) ==
    IF tokens = <<>> THEN 0
    ELSE LET t == Head(tokens)
         IN  IF t.kind = "end" \/ Len(t.bytes) > room THEN 0
             ELSE 1 + Passed(Tail(tokens), room - Len(t.bytes))

\* C32: parsing a body of at least 8 bytes raises no exception and asks for
\* no byte beyond the end of the body; it returns at the first
\* end-of-attributes tag met where a tag is expected, or where the bytes
\* left cannot hold the next length or field, or at the end of the body;
\* and it returns the texts of the fields named requested-attributes that
\* were whole before that point, in their order.
C32_ParseWithinBuffer ==
    /\ attrRead <= Len(attrData)
    /\ attrStop # "raised"
    /\ attrPc = "returned" =>
          LET room == Len(attrData) - 8
              passed == Passed(attrBuilt, room)
              at == Len(AttrBytes(SubSeq(attrBuilt, 1, passed)))
          IN  /\ requested_attrs = Present(attrBuilt, room)
              /\ attrAt = at
              /\ attrStop = IF at >= Len(attrData) THEN "exhausted"
                            ELSE IF attrBuilt[passed + 1].kind = "end" THEN "end_tag"
                            ELSE "short"

\* A body with a requested-attributes field whose value is the byte 0x03,
\* then the end-of-attributes tag: the value was returned and the parse
\* stopped at the tag.
C32_Witness ==
    /\ attrPc = "returned"
    /\ attrStop = "end_tag"
    /\ requested_attrs = << <<3>> >>
    /\ attrAt = Len(attrData) - 1

\* A body cut short inside the value of its second field: the first
\* value was returned.
C32_TruncatedWitness ==
    /\ attrPc = "returned"
    /\ attrStop = "short"
    /\ Len(requested_attrs) = 1
    /\ attrPos = Len(attrData)
    /\ Len(attrBuilt) = 2


----------------------------------------------------------------------------
(* Response contents *)

\* The bytes of an IPP response.
ResponseBytes(r) == EncodeResponse(r.status, r.request_id, r.group)

\* job-state = 9 (completed), as encoded
JobStateCompleted == Attr(35, 9, <<106, 111, 98, 45, 115, 116, 97, 116, 101>>, 4, PackI(9))

\* The attribute groups of the responses to the request handled are as
\* its operation op demands.
GroupsAsFor(op) ==
    /\ op \in {9, 11} => Len(http) = 1 /\ http[1].code = HttpOk
    /\ \A n \in 1..Len(http) :
          http[n].code = HttpOk =>
             LET bytes == ResponseBytes(http[n])
                 rest == SubSeq(bytes, 9 + Len(OperationAttributes), Len(bytes))
             IN  /\ SubSeq(bytes, 9, 8 + Len(OperationAttributes)) = OperationAttributes
                 /\ op = 11 => rest = PrinterAttributes \o <<3>>
                 /\ op = 9 => /\ rest = JobAttributes \o <<3>>
                              /\ Occurrences(rest, JobStateCompleted) = 1
                 /\ op \notin {9, 11} => rest = <<3>>

\* C33: the response to a Get-Printer-Attributes request carries the
\* printer attributes group with all its attributes, the response to a
\* Get-Job-Attributes request the job attributes group with job-state 9,
\* and every other IPP response the operation attributes group alone.
C33_GroupsByOperation ==
    (/\ posts > 0
     /\ request.content_length # NotANumber
     /\ Len(ReadBody(request)) >= 8)
    => GroupsAsFor(OpOf(ReadBody(request)))

\* The same for every operation but Get-Printer-Attributes.
C33_ExceptGetPrinterAttributes ==
    (/\ posts > 0
     /\ request.content_length # NotANumber
     /\ Len(ReadBody(request)) >= 8
     /\ OpOf(ReadBody(request)) # 11)
    => GroupsAsFor(OpOf(ReadBody(request)))

\* A Get-Job-Attributes request was answered.
C33_JobAttributesSent ==
    /\ posts > 0
    /\ request.content_length # NotANumber
    /\ Len(ReadBody(request)) >= 8
    /\ OpOf(ReadBody(request)) = 9
    /\ Len(http) = 1
    /\ http[1].group = "job"


\* C36: every IPP response has the version bytes 2 and 0 and, in its
\* bytes 4 to 7, the bytes 4 to 7 of the request it answers, whatever the
\* operation id, the request id and the version of the request are.
C36_RequestIdEchoed ==
    posts > 0 =>
       \A n \in 1..Len(http) :
          http[n].code = HttpOk =>
             LET bytes == ResponseBytes(http[n])
             IN  /\ SubSeq(bytes, 1, 2) = <<2, 0>>
                 /\ SubSeq(bytes, 5, 8) = SubSeq(request.sent, 5, 8)

\* A request of version 1.1 with request id 3 for an operation that is not
\* dispatched was answered with an IPP response.
C36_Witness ==
    /\ posts > 0
    /\ Len(request.sent) >= 8
    /\ SubSeq(request.sent, 1, 2) = <<1, 1>>
    /\ SubSeq(request.sent, 5, 8) = <<0, 0, 0, 3>>
    /\ Dispatch(OpOf(request.sent)) = "unsupported"
    /\ Len(http) = 1
    /\ http[1].code = HttpOk
    /\ http[1].status = OperationNotSupported


\* The operation id op is among the values of operations-supported as the
\* encoder writes them: a value length of 4 followed by the id.
Advertised(op) == Occurrences(OperationsSupported, <<0, 4>> \o PackI(op)) > 0

\* The request handled was answered with IPP status 0x0501.
Refused == \E n \in 1..Len(http) : http[n].status = OperationNotSupported

\* C37: a request is answered with a status other than 0x0501 exactly when
\* its operation id is among the operations-supported values that the
\* printer attributes group advertises.
C37_AdvertisedIffDispatched ==
    (/\ posts > 0
     /\ request.content_length # NotANumber
     /\ Len(ReadBody(request)) >= 8)
    => (~Refused <=> Advertised(OpOf(ReadBody(request))))

\* The same for every operation but Send-Document.
C37_ExceptSendDocument ==
    (/\ posts > 0
     /\ request.content_length # NotANumber
     /\ Len(ReadBody(request)) >= 8
     /\ OpOf(ReadBody(request)) # 6)
    => (~Refused <=> Advertised(OpOf(ReadBody(request))))

\* A Send-Document request was answered with status 0x0000 and its document
\* submitted.
C37_SendDocumentServed ==
    /\ posts > 0
    /\ request.content_length # NotANumber
    /\ Len(ReadBody(request)) >= 8
    /\ OpOf(ReadBody(request)) = 6
    /\ ~Advertised(6)
    /\ Len(http) = 1
    /\ http[1].status = SuccessfulOk
    /\ submitted # <<>>


----------------------------------------------------------------------------
(* The marker gate of the executor *)

\* The texts of the p.text calls among these calls, concatenated in order.
TextDelivered(calls) ==
    Concat([n \in 1..Len(calls) |->
               IF calls[n].op = "text" THEN calls[n].text ELSE <<>>])

\* C38: for a text in which has_markdown finds none of its patterns, the
\* compiler's result, at every point of the scan, consists of Text
\* directives only, whose texts concatenated are the text scanned so far;
\* once it has returned, the calls the compiled path would make print the
\* same text as the direct path, which prints the payload whole, and
\* neither cuts the paper.
C38_GateSound ==
    ~has_markdown(mdText) =>
       /\ \A n \in 1..Len(mdResult) : mdResult[n].type = "text"
       /\ TextOf(mdResult) = SubSeq(mdText, 1, mdPos)
       /\ Returned =>
             LET compiled == print_markdown_formatted_data(mdResult)
                 direct == TextJobCalls(mdText)
             IN  /\ TextDelivered(compiled) = mdText
                 /\ TextDelivered(direct) = mdText
                 /\ \A n \in 1..Len(compiled) : compiled[n].op # "cut"

\* A text of lone marker characters, none of them a gate pattern, was
\* compiled to the end.
C38_Witness ==
    /\ ~has_markdown(mdText)
    /\ Returned
    /\ Len(mdText) = 3
    /\ \A p \in 1..Len(mdText) : mdText[p] \in {"*", ">", "\n"}
    /\ \E p \in 1..Len(mdText) : mdText[p] = "*"
    /\ \E p \in 1..Len(mdText) : mdText[p] = ">"
    /\ Len(mdResult) = 3


----------------------------------------------------------------------------
(* Spans *)

\* The branches that recognise a span, with the length of the opening
\* marker.
SpanOpenLen ==
    [b \in {"bold", "underline", "invert", "align", "custom_size"} |->
        CASE b = "align" -> 3 [] b = "custom_size" -> 5 [] OTHER -> 2]

\* The closing marker of the span that opens at position p of s with a
\* marker of n characters: the same pair, or the tag with a slash.
ClosingOf(s, p, n) ==
    IF n = 2 THEN SubSeq(s, p + 1, p + 2)
    ELSE <<"<", "/">> \o SubSeq(s, p + 2, p + n)

\* C40: an iteration that recognises a span appends one item, whose text
\* is the text between the opening marker and the first closing marker
\* after it, character for character, whatever markers it contains, and
\* leaves the scan right after that closing marker, so that nothing inside
\* the span is compiled again; <C>~~x~~</C> compiles to one alignment item
\* and a bold span around a >>> line and a # to one bold item.
C40_SpanVerbatim ==
    /\ (Scanned /\ mdLast.branch \in DOMAIN SpanOpenLen) =>
          LET p == mdLast.from
              n == SpanOpenLen[mdLast.branch]
              close == ClosingOf(mdText, p, n)
              ends == {q \in (p + n)..(Len(mdText) - Len(close)) :
                          SubSeq(mdText, q + 1, q + Len(close)) = close}
          IN  /\ ends # {}
              /\ LET e == CHOOSE q \in ends : \A r \in ends : q <= r
                 IN  /\ Len(mdLast.items) = 1
                     /\ mdLast.items[1].type \in {"format", "align", "custom_size"}
                     /\ mdLast.items[1].text = SubSeq(mdText, p + n + 1, e)
                     /\ mdPos = e + Len(close)
    /\ (Returned /\ mdText = <<"<", "C", ">", "~", "~", "x", "~", "~", "<", "/", "C", ">">>)
          => mdResult = <<AlignItem("c", <<"~", "~", "x", "~", "~">>)>>
    /\ (Returned /\ mdText = <<"*", "*", "a", "\n", ">", ">", ">", "\n", "#", "b", "*", "*">>)
          => mdResult = <<FormatItem("bold", <<"a", "\n", ">", ">", ">", "\n", "#", "b">>)>>

\* **a, a >>> line and #b** have been compiled to one bold item.
C40_Witness ==
    /\ Returned
    /\ mdText = <<"*", "*", "a", "\n", ">", ">", ">", "\n", "#", "b", "*", "*">>
    /\ Len(mdResult) = 1
    /\ mdLast.branch = "bold"

\* A custom-size span around a paired marker has been compiled.
C40_CustomSizeWitness ==
    /\ Returned
    /\ mdLast.branch = "custom_size"
    /\ Len(mdResult) = 1
    /\ mdResult[1].text \in {<<"*", "*">>, <<"~", "~">>, <<"#">>}



----------------------------------------------------------------------------
(* Stopping *)

\* C34: once stop() has been called it returns, whether the worker thread
\* was never started, is executing a job, waits on an empty queue or has
\* jobs queued ahead of the sentinel.
C34_StopReturns == (stopPc # "idle") ~> (stopPc = "returned")

\* stop() has returned with the worker exited and a job still queued ahead
\* of the sentinel.
C34_Witness ==
    /\ stopPc = "returned"
    /\ workerPc = "exited"
    /\ Len(print_queue) >= 2
    /\ print_queue[1] # NoneJob
    /\ print_queue[Len(print_queue)] = NoneJob

\* stop() has returned with the worker exited, and no job was ever
\* submitted: the worker waited on the empty queue.
C34_EmptyQueueWitness ==
    /\ stopPc = "returned"
    /\ workerPc = "exited"
    /\ print_queue = <<>>
    /\ nextId = 1

\* C39: once stop() has set the flag, at most one job begins executing,
\* and none when a job was executing at that moment; once one has begun,
\* or when one was executing, every job that is queued stays queued for
\* ever and has no device call; and once stop() has returned there is no
\* device call.
C39_AtMostOneFurtherJob ==
    /\ [](/\ Cardinality(further) <= 1
          /\ stopSeen # 0 => further = {}
          /\ is_running => further = {}
          /\ ~is_running =>
                \A j \in JobIds :
                   jobState[j] = "Executing" => j = stopSeen \/ j \in further)
    /\ [][(~is_running /\ (further # {} \/ stopSeen # 0)) =>
             \A j \in JobIds :
                jobState[j] = "Queued" =>
                   /\ jobState'[j] = "Queued"
                   /\ \A x \in 1..Len(device') : device'[x] # j]_vars
    /\ [][stopPc = "returned" => UNCHANGED <<device, k>>]_vars

\* The flag was set after the worker's loop test: one job was executed
\* after it, another, put before the sentinel, is still queued with the
\* worker exited.
C39_Witness ==
    /\ stopPc = "returned"
    /\ \E j \in JobIds : further = {j} /\ Finished(j)
    /\ workerPc = "exited"
    /\ Len(print_queue) = 2
    /\ jobState[print_queue[1].id] = "Queued"
    /\ print_queue[2] = NoneJob


----------------------------------------------------------------------------
(* Connections to a raw listener *)

\* C35: a connection that waits to be accepted is accepted in the end,
\* whatever the connection accepted before it does: also when that one
\* stays open and sends nothing.
C35_SecondConnectionAccepted ==
    \A c \in 0..MaxConns : (backlog > 0 /\ conns = c) ~> (conns > c)

\* A connection that waits is accepted once the listener is back at
\* accept: a connection accepted before it has been closed by its peer.
C35_AcceptedAfterClose ==
    \A c \in 0..MaxConns : (backlog > 0 /\ conns = c /\ tcpPc = "accept") ~> (conns > c)

\* While a connection accepted earlier is open, no other is accepted and
\* no job of another connection is submitted.
C35_OneConnectionAtATime ==
    [][tcpPc = "recv" => conns' = conns]_vars

\* The first connection is open and has been idle for the timeout period
\* without having sent anything, and a second connection waits.
C35_IdleBlocks ==
    /\ tcpPc = "recv"
    /\ conns = 1
    /\ peerOpen
    /\ received = <<>>
    /\ pending = <<>>
    /\ timeouts = MaxTimeouts
    /\ backlog = 1

====
